---- MODULE Spec2Model ----
(***************************************************************************)
(* A model of the WeConnect backend: the persistence layer (users, posts, *)
(* connections), the request handlers of the posts and connections        *)
(* controllers, the auth controller and middleware, and the inbound       *)
(* webhook pipeline of index.ts.                                          *)
(*                                                                         *)
(* A JavaScript object is a function from its keys to values; a key that   *)
(* is absent is not in the DOMAIN.  undefined and null are one value per   *)
(* type: NULL for strings, NoId for ids, NoTime for instants.  A database  *)
(* table is the set of its rows.  A handler is one action: Node runs a    *)
(* handler without interleaving between two awaits, and the handlers      *)
(* modelled here are taken whole.                                          *)
(***************************************************************************)
EXTENDS Integers, Sequences, FiniteSets, TLC

VARIABLES
    users,      \* table users
    posts,      \* table posts
    conns,      \* table connections
    nextId,     \* the ids uuidv4 has handed out so far, per table
    now,        \* the server clock Date.now(), in milliseconds
    env,        \* process.env, read once at start
    resp,       \* the request handled last and the response it was given
    sent,       \* the outbound webhook calls the last request made
    inflight,   \* the requests that wait at an await, with what they hold
    console     \* the lines signup and login have logged for the request handled last

vars == <<users, posts, conns, nextId, now, env, resp, sent, inflight, console>>

----------------------------------------------------------------------------
(* Values *)

NULL == "<null>"
NoId == 0
NoTime == -1

\* A string that is inspected character by character is a sequence of
\* characters.  An absent header or field of that kind, and undefined in
\* general, is the empty sequence; the code tests such values for falsiness
\* only, which the empty string shares.
Absent == <<>>

\* JavaScript truthiness of a string-or-undefined value.
Truthy(s) == s \notin {NULL, ""}

Has(o, k) == k \in DOMAIN o
GetS(o, k) == IF k \in DOMAIN o THEN o[k] ELSE NULL
GetT(o, k) == IF k \in DOMAIN o THEN o[k] ELSE NoTime

\* { ...a, ...b }
Merge(a, b) ==
    [k \in (DOMAIN a) \cup (DOMAIN b) |-> IF k \in DOMAIN b THEN b[k] ELSE a[k]]

\* Bounds of the model.
MaxPosts == 1
MaxConns == 2

----------------------------------------------------------------------------
(* Strings that the code inspects character by character are sequences of  *)
(* one-character strings.                                                  *)

UpperCase == <<"A", "B", "C", "D", "E", "F", "G", "H", "I", "J", "K", "L", "M",
               "N", "O", "P", "Q", "R", "S", "T", "U", "V", "W", "X", "Y", "Z">>
LowerCase == <<"a", "b", "c", "d", "e", "f", "g", "h", "i", "j", "k", "l", "m",
               "n", "o", "p", "q", "r", "s", "t", "u", "v", "w", "x", "y", "z">>
DigitChars == <<"0", "1", "2", "3", "4", "5", "6", "7", "8", "9">>

Range(f) == {f[i] : i \in DOMAIN f}

IsUpper(c) == c \in Range(UpperCase)
IsLower(c) == c \in Range(LowerCase)
IsDigit(c) == c \in Range(DigitChars)
\* \w
IsWordChar(c) == IsUpper(c) \/ IsLower(c) \/ IsDigit(c) \/ c = "_"
\* \s
IsSpace(c) == c \in {" ", "\t", "\n", "\r"}

\* \w+ at position i: the last position of the run of word characters that
\* starts at i, i - 1 when there is none.
RECURSIVE WordRunEnd(_, _)
WordRunEnd(s, i) ==
    IF i <= Len(s) /\ IsWordChar(s[i]) THEN WordRunEnd(s, i + 1) ELSE i - 1

ToLowerChar(c) ==
    IF IsUpper(c) THEN LowerCase[CHOOSE i \in DOMAIN UpperCase : UpperCase[i] = c] ELSE c

\* String.prototype.toLowerCase, SQL LOWER()
ToLower(s) == [i \in DOMAIN s |-> ToLowerChar(s[i])]

DigitValue(c) == (CHOOSE i \in DOMAIN DigitChars : DigitChars[i] = c) - 1

Min(S) == CHOOSE x \in S : \A y \in S : x <= y

\* The literal lit, given in lower case, stands at position i of s (flag i).
MatchCI(s, i, lit) ==
    /\ i + Len(lit) - 1 <= Len(s)
    /\ \A k \in 1..Len(lit) : ToLowerChar(s[i + k - 1]) = lit[k]

\* String(n) of a non-negative integer.
RECURSIVE ToStr(_)
ToStr(n) ==
    IF n < 10 THEN <<DigitChars[n + 1]>>
    ELSE ToStr(n \div 10) \o <<DigitChars[(n % 10) + 1]>>

\* The value of the digits of s from position i on, after the value acc.
RECURSIVE DigitsValue(_, _, _)
DigitsValue(s, i, acc) ==
    IF i > Len(s) \/ ~IsDigit(s[i]) THEN acc
    ELSE DigitsValue(s, i + 1, acc * 10 + DigitValue(s[i]))

\* The first position of s at or after i that holds no white space.
RECURSIVE SkipSpace(_, _)
SkipSpace(s, i) ==
    IF i <= Len(s) /\ IsSpace(s[i]) THEN SkipSpace(s, i + 1) ELSE i

\* parseInt(s, 10): leading white space, a sign, then digits up to the first
\* character that is none; NaN when there is no digit.
ParseInt(s) ==
    LET i == SkipSpace(s, 1)
        signed == i <= Len(s) /\ s[i] \in {"+", "-"}
        j == IF signed THEN i + 1 ELSE i
    IN  IF j > Len(s) \/ ~IsDigit(s[j])
        THEN [nan |-> TRUE, n |-> 0]
        ELSE [nan |-> FALSE,
              n |-> IF signed /\ s[i] = "-" THEN 0 - DigitsValue(s, j, 0)
                    ELSE DigitsValue(s, j, 0)]

Abs(x) == IF x < 0 THEN 0 - x ELSE x

----------------------------------------------------------------------------
(* Response envelopes *)

ErrBody(code, error, message) ==
    [success |-> FALSE, error |-> error, message |-> message, statusCode |-> code]

OkBody(data, message) ==
    [success |-> TRUE, data |-> data, message |-> message]

Response(op, u, id, input, status, body) ==
    [op |-> op, by |-> op, user |-> u, id |-> id, input |-> input,
     status |-> status, body |-> body]

\* The response of the route op, written by the middleware mw in front of it.
AnsweredBy(mw, r) == [r EXCEPT !.by = mw]

NoResponse == Response("none", NoId, NoId, <<>>, 0, <<>>)

----------------------------------------------------------------------------
(* Persistence layer: users, and their password hashes (bcryptjs) *)

MaxUsers == 2

mapRowToUser(row) ==
    [id |-> row.id, email |-> row.email, password |-> row.password,
     name |-> row.name, firstName |-> row.first_name, lastName |-> row.last_name,
     company |-> row.company, role |-> row.role, avatar |-> row.avatar,
     createdAt |-> row.created_at, updatedAt |-> row.updated_at]

\* WHERE LOWER(email) = LOWER($1)
findUserByEmail(table, email) == {r \in table : ToLower(r.email) = ToLower(email)}

findUserById(table, id) == {r \in table : r.id = id}

UserInsertFails_Never(table, user) == FALSE

\* The INSERT violates the primary key or UNIQUE(email) and throws.
UserInsertFails(table, user) ==
    \E r \in table : r.id = user.id \/ r.email = user.email

dbCreateUser(table, user) ==
    table \cup
        {[id |-> user.id, email |-> user.email, password |-> user.password,
          name |-> user.name,
          first_name |-> GetS(user, "firstName"), last_name |-> GetS(user, "lastName"),
          company |-> GetS(user, "company"),
          role |-> IF Truthy(GetS(user, "role")) THEN user.role ELSE "user",
          avatar |-> GetS(user, "avatar"),
          created_at |-> user.createdAt, updated_at |-> user.updatedAt]}

\* bcrypt.hash(password, 12): the hash stands for the password hashed, and
\* bcrypt.compare is true for that password only.
BcryptHash(password) == [bcrypt |-> password]

BcryptCompare(password, hash) == hash = BcryptHash(password)

\* The user object signup builds for a row id and an email, at instant 0.
SignedUpUser(id, email) ==
    [id |-> id, email |-> email, password |-> BcryptHash(<<"P", "w", "1", "!">>),
     name |-> <<"Ada", " ", "Byron">>, firstName |-> "Ada", lastName |-> "Byron",
     role |-> "user", createdAt |-> 0, updatedAt |-> 0]

\* The users table after the signups of two users.
TwoUsers ==
    dbCreateUser(dbCreateUser({}, SignedUpUser(1, <<"a", "@", "b", ".", "c">>)),
                 SignedUpUser(2, <<"d", "@", "e", ".", "f">>))

----------------------------------------------------------------------------
(* Persistence layer: connections *)

ValidPlatforms_WithTiktok ==
    {"instagram", "linkedin", "facebook", "instagram-feed", "instagram-reels", "tiktok"}

ValidPlatforms == {"instagram", "linkedin", "facebook", "instagram-feed", "instagram-reels"}

mapRowToConnection(row) ==
    [id |-> row.id, userId |-> row.user_id, platform |-> row.platform,
     platformUserId |-> row.platform_user_id,
     platformUsername |-> row.platform_username,
     accessToken |-> row.access_token, refreshToken |-> row.refresh_token,
     tokenExpiresAt |-> row.token_expires_at, status |-> row.status]

findConnectionById(table, id) == {r \in table : r.id = id}

\* findConnectionsByUserId without the WHERE user_id = $1.
findConnectionsByUserId_All(table, u) == {mapRowToConnection(r) : r \in table}

findConnectionsByUserId(table, u) == {mapRowToConnection(r) : r \in {q \in table : q.user_id = u}}

\* The columns db.createConnection binds, $1..$9, from the Connection object.
ConnectionParams(c) ==
    [id |-> c.id, user_id |-> c.userId, platform |-> c.platform,
     platform_user_id |-> GetS(c, "platformUserId"),
     platform_username |-> GetS(c, "platformUsername"),
     access_token |-> GetS(c, "accessToken"),
     refresh_token |-> GetS(c, "refreshToken"),
     token_expires_at |-> GetS(c, "tokenExpiresAt"),
     status |-> c.status]

\* INSERT ... ON CONFLICT (user_id, platform) DO UPDATE SET ...
UpsertConnection(table, p) ==
    LET hit == {r \in table : r.user_id = p.user_id /\ r.platform = p.platform}
    IN  IF hit = {}
        THEN table \cup {p}
        ELSE (table \ hit) \cup
             {[r EXCEPT !.platform_user_id = p.platform_user_id,
                        !.platform_username = p.platform_username,
                        !.access_token = p.access_token,
                        !.refresh_token = p.refresh_token,
                        !.token_expires_at = p.token_expires_at,
                        !.status = p.status] : r \in hit}

dbCreateConnection(table, c) == UpsertConnection(table, ConnectionParams(c))

\* UpdateConnectionRow with user_id and platform among the columns it sets.
UpdateConnectionRow_WithOwner(table, id, updated) ==
    {IF r.id = id
     THEN [r EXCEPT !.user_id = updated.userId,
                    !.platform = updated.platform,
                    !.platform_user_id = updated.platformUserId,
                    !.platform_username = updated.platformUsername,
                    !.access_token = updated.accessToken,
                    !.refresh_token = updated.refreshToken,
                    !.token_expires_at = updated.tokenExpiresAt,
                    !.status = updated.status]
     ELSE r : r \in table}

\* db.updateConnection: read, merge, write.  The result is <<table, updated>>;
\* updated is <<>> when no row has the id.
\* UPDATE connections SET ... WHERE id = $8: every column but the platform
\* is written from updated.
UpdateConnectionRow(table, id, updated) ==
    {IF r.id = id
     THEN [r EXCEPT !.platform_user_id = updated.platformUserId,
                    !.platform_username = updated.platformUsername,
                    !.access_token = updated.accessToken,
                    !.refresh_token = updated.refreshToken,
                    !.token_expires_at = updated.tokenExpiresAt,
                    !.status = updated.status]
     ELSE r : r \in table}

dbUpdateConnection(table, id, updates) ==
    LET hit == findConnectionById(table, id)
    IN  IF hit = {}
        THEN <<table, <<>>>>
        ELSE LET updated == Merge(mapRowToConnection(CHOOSE r \in hit : TRUE), updates)
             IN  <<UpdateConnectionRow(table, id, updated), updated>>

dbDeleteConnection(table, id) == {r \in table : r.id # id}

----------------------------------------------------------------------------
(* Persistence layer: posts *)

mapRowToPost(row) ==
    [id |-> row.id, userId |-> row.user_id, content |-> row.content,
     platforms |-> row.platforms, status |-> row.status,
     scheduledAt |-> row.scheduled_at, publishedAt |-> row.published_at]

findPostById(table, id) == {r \in table : r.id = id}

findPostsByUserId(table, u) == {mapRowToPost(r) : r \in {q \in table : q.user_id = u}}

\* INSERT INTO posts: the columns bound from the Post object.
dbCreatePost(table, p) ==
    table \cup {[id |-> p.id, user_id |-> p.userId, content |-> p.content,
                 platforms |-> p.platforms, status |-> p.status,
                 scheduled_at |-> GetT(p, "scheduledAt"),
                 published_at |-> GetT(p, "publishedAt")]}

\* db.updatePost: read, merge, write.  The result is <<table, updated>>;
\* updated is <<>> when no row has the id.
\* UPDATE posts SET ... WHERE id = $18: every column is written from updated.
UpdatePostRow(table, id, updated) ==
    {IF r.id = id
     THEN [r EXCEPT !.content = updated.content,
                    !.platforms = updated.platforms,
                    !.status = updated.status,
                    !.scheduled_at = updated.scheduledAt,
                    !.published_at = updated.publishedAt]
     ELSE r : r \in table}

dbUpdatePost(table, id, updates) ==
    LET hit == findPostById(table, id)
    IN  IF hit = {}
        THEN <<table, <<>>>>
        ELSE LET updated == Merge(mapRowToPost(CHOOSE r \in hit : TRUE), updates)
             IN  <<UpdatePostRow(table, id, updated), updated>>

dbDeletePost(table, id) == {r \in table : r.id # id}

----------------------------------------------------------------------------
(* The load-check part of every id-addressed handler: the row is loaded by *)
(* id; no row is 404, a row of another owner is 403, else the handler acts.*)

\* LoadCheck without the comparison of the row's owner with the caller.
LoadCheck_NoOwner(hit, u) ==
    IF hit = {} THEN 404 ELSE 200

LoadCheck(hit, u) ==
    IF hit = {} THEN 404
    ELSE IF (CHOOSE r \in hit : TRUE).user_id # u THEN 403
    ELSE 200

PostNotFound == ErrBody(404, "Not Found", "Post nicht gefunden.")
PostForbidden == ErrBody(403, "Forbidden", "Keine Berechtigung für diesen Post.")
ConnNotFound == ErrBody(404, "Not Found", "Verbindung nicht gefunden.")
ConnForbidden == ErrBody(403, "Forbidden", "Keine Berechtigung für diese Verbindung.")

\* A handler that answers without touching the tables or the outside.
ReplyOnly(r) ==
    /\ resp' = r
    /\ sent' = <<>>
    /\ UNCHANGED <<users, posts, conns, nextId, now, env, inflight, console>>

\* The handler answers, writes no row, and has logged the lines.
ReplyLogging(r, lines) ==
    /\ resp' = r
    /\ sent' = <<>>
    /\ console' = lines
    /\ UNCHANGED <<users, posts, conns, nextId, now, env, inflight>>

----------------------------------------------------------------------------
(* Connections controller *)

getAllConnections(u) ==
    ReplyOnly(Response("getAllConnections", u, NoId, <<>>, 200,
                       OkBody(findConnectionsByUserId(conns, u), "")))

createConnection(u, body) ==
    LET platform == GetS(body, "platform")
        accessToken == GetS(body, "accessToken")
        newConnection ==
            [id |-> nextId.conn + 1, userId |-> u, platform |-> platform,
             status |-> IF Truthy(accessToken) THEN "connected" ELSE "pending",
             accountName |-> GetS(body, "accountName"),
             accountId |-> GetS(body, "accountId"),
             accessToken |-> accessToken,
             refreshToken |-> GetS(body, "refreshToken"),
             expiresAt |-> GetS(body, "expiresAt")]
    IN  IF ~Truthy(platform)
        THEN ReplyOnly(Response("createConnection", u, NoId, body, 400,
                 ErrBody(400, "Bad Request", "Plattform ist erforderlich.")))
        ELSE IF platform \notin ValidPlatforms
        THEN ReplyOnly(Response("createConnection", u, NoId, body, 400,
                 ErrBody(400, "Bad Request",
                     "Ungültige Plattform. Erlaubt: instagram, linkedin, facebook, instagram-feed, instagram-reels")))
        ELSE /\ nextId.conn < MaxConns
             /\ nextId' = [nextId EXCEPT !.conn = @ + 1]
             /\ conns' = dbCreateConnection(conns, newConnection)
             /\ resp' = Response("createConnection", u, NoId, body, 201,
                            OkBody(newConnection, "erfolgreich verbunden!"))
             /\ sent' = <<>>
             /\ UNCHANGED <<users, posts, now, env, inflight, console>>

updateConnection(u, id, updates) ==
    LET gate == LoadCheck(findConnectionById(conns, id), u)
        res == dbUpdateConnection(conns, id, updates)
    IN  IF gate = 404
        THEN ReplyOnly(Response("updateConnection", u, id, updates, 404, ConnNotFound))
        ELSE IF gate = 403
        THEN ReplyOnly(Response("updateConnection", u, id, updates, 403, ConnForbidden))
        ELSE /\ conns' = res[1]
             /\ resp' = Response("updateConnection", u, id, updates, 200,
                            OkBody(res[2], "Verbindung erfolgreich aktualisiert!"))
             /\ sent' = <<>>
             /\ UNCHANGED <<users, posts, nextId, now, env, inflight, console>>

deleteConnection(u, id) ==
    LET gate == LoadCheck(findConnectionById(conns, id), u)
    IN  IF gate = 404
        THEN ReplyOnly(Response("deleteConnection", u, id, <<>>, 404, ConnNotFound))
        ELSE IF gate = 403
        THEN ReplyOnly(Response("deleteConnection", u, id, <<>>, 403, ConnForbidden))
        ELSE /\ conns' = dbDeleteConnection(conns, id)
             /\ resp' = Response("deleteConnection", u, id, <<>>, 200,
                            OkBody(<<>>, "Verbindung erfolgreich getrennt!"))
             /\ sent' = <<>>
             /\ UNCHANGED <<users, posts, nextId, now, env, inflight, console>>

\* The body's accessToken, refreshToken and expiresAt are destructured, so an
\* absent one is passed on as undefined and overrides the stored value.
reconnectConnection(u, id, body) ==
    LET gate == LoadCheck(findConnectionById(conns, id), u)
        updates == [status |-> "connected",
                    accessToken |-> GetS(body, "accessToken"),
                    refreshToken |-> GetS(body, "refreshToken"),
                    expiresAt |-> GetS(body, "expiresAt"),
                    connectedAt |-> now, lastSync |-> now,
                    errorMessage |-> NULL]
        res == dbUpdateConnection(conns, id, updates)
    IN  IF gate = 404
        THEN ReplyOnly(Response("reconnectConnection", u, id, body, 404, ConnNotFound))
        ELSE IF gate = 403
        THEN ReplyOnly(Response("reconnectConnection", u, id, body, 403, ConnForbidden))
        ELSE /\ conns' = res[1]
             /\ resp' = Response("reconnectConnection", u, id, body, 200,
                            OkBody(res[2], "Verbindung erfolgreich wiederhergestellt!"))
             /\ sent' = <<>>
             /\ UNCHANGED <<users, posts, nextId, now, env, inflight, console>>

----------------------------------------------------------------------------
(* Posts controller *)

\* input.content || `Post über: ${input.topic}`
DefaultContent(input) ==
    <<"P", "o", "s", "t", " ", "ü", "b", "e", "r", ":", " ">>
        \o (IF Has(input, "topic") THEN input.topic
            ELSE <<"u", "n", "d", "e", "f", "i", "n", "e", "d">>)

\* content.match(/#\w+/g) || [] and content.match(/@\w+/g) || [], from
\* index i on: the matches from left to right.
RECURSIVE MatchAll(_, _, _)
MatchAll(s, sigil, i) ==
    IF i >= Len(s) THEN <<>>
    ELSE IF s[i] = sigil /\ IsWordChar(s[i + 1])
    THEN <<SubSeq(s, i, WordRunEnd(s, i + 1))>> \o MatchAll(s, sigil, WordRunEnd(s, i + 1) + 1)
    ELSE MatchAll(s, sigil, i + 1)

\* content.trim().split(/\s+/).filter(w => w.length > 0).length: the runs
\* of characters that are not white space.
WordCount(s) ==
    Cardinality({i \in DOMAIN s : ~IsSpace(s[i]) /\ (i = 1 \/ IsSpace(s[i - 1]))})

calculateMetadata(content) ==
    [characterCount |-> Len(content),
     wordCount |-> WordCount(content),
     hashtags |-> MatchAll(content, "#", 1),
     mentions |-> MatchAll(content, "@", 1)]

getAllPosts(u) ==
    ReplyOnly(Response("getAllPosts", u, NoId, <<>>, 200,
                       OkBody(findPostsByUserId(posts, u), "")))

getPostById(u, id) ==
    LET hit == findPostById(posts, id)
        gate == LoadCheck(hit, u)
    IN  IF gate = 404
        THEN ReplyOnly(Response("getPostById", u, id, <<>>, 404, PostNotFound))
        ELSE IF gate = 403
        THEN ReplyOnly(Response("getPostById", u, id, <<>>, 403, PostForbidden))
        ELSE ReplyOnly(Response("getPostById", u, id, <<>>, 200,
                                OkBody(mapRowToPost(CHOOSE r \in hit : TRUE), "")))

createPost(u, input) ==
    LET content == IF Has(input, "content") /\ input.content # Absent
                   THEN input.content ELSE DefaultContent(input)
        scheduledAt == GetT(input, "scheduledAt")
        newPost ==
            [id |-> nextId.post + 1, userId |-> u, content |-> content,
             platforms |-> input.platforms,
             status |-> IF scheduledAt # NoTime THEN "scheduled" ELSE "draft",
             scheduledAt |-> scheduledAt,
             topic |-> IF Has(input, "topic") THEN input.topic ELSE Absent,
             metadata |-> calculateMetadata(content)]
    IN  IF ~Has(input, "platforms") \/ input.platforms = {}
        THEN ReplyOnly(Response("createPost", u, NoId, input, 400,
                 ErrBody(400, "Bad Request",
                         "Mindestens eine Plattform muss ausgewählt sein.")))
        ELSE /\ nextId.post < MaxPosts
             /\ nextId' = [nextId EXCEPT !.post = @ + 1]
             /\ posts' = dbCreatePost(posts, newPost)
             /\ resp' = Response("createPost", u, NoId, input, 201,
                            OkBody(newPost, "Post erfolgreich erstellt!"))
             /\ sent' = <<>>
             /\ UNCHANGED <<users, conns, now, env, inflight, console>>

\* if (updates.content) updates.metadata = calculateMetadata(updates.content)
WithMetadata(updates) ==
    IF Has(updates, "content") /\ updates.content # Absent
    THEN Merge(updates, [metadata |-> calculateMetadata(updates.content)])
    ELSE updates

updatePost(u, id, body) ==
    LET gate == LoadCheck(findPostById(posts, id), u)
        updates == WithMetadata(body)
        res == dbUpdatePost(posts, id, updates)
    IN  IF gate = 404
        THEN ReplyOnly(Response("updatePost", u, id, body, 404, PostNotFound))
        ELSE IF gate = 403
        THEN ReplyOnly(Response("updatePost", u, id, body, 403, PostForbidden))
        ELSE /\ posts' = res[1]
             /\ resp' = Response("updatePost", u, id, body, 200,
                            OkBody(res[2], "Post erfolgreich aktualisiert!"))
             /\ sent' = <<>>
             /\ UNCHANGED <<users, conns, nextId, now, env, inflight, console>>

deletePost(u, id) ==
    LET gate == LoadCheck(findPostById(posts, id), u)
    IN  IF gate = 404
        THEN ReplyOnly(Response("deletePost", u, id, <<>>, 404, PostNotFound))
        ELSE IF gate = 403
        THEN ReplyOnly(Response("deletePost", u, id, <<>>, 403, PostForbidden))
        ELSE /\ posts' = dbDeletePost(posts, id)
             /\ resp' = Response("deletePost", u, id, <<>>, 200,
                            OkBody(<<>>, "Post erfolgreich gelöscht!"))
             /\ sent' = <<>>
             /\ UNCHANGED <<users, conns, nextId, now, env, inflight, console>>

\* ActiveConnections without the test of the connection's status.
ActiveConnections_AnyStatus(post, connections) ==
    {c \in connections : c.platform \in post.platforms}

\* connections.filter(c => post.platforms.includes(c.platform) && c.status === 'connected')
ActiveConnections(post, connections) ==
    {c \in connections : c.platform \in post.platforms /\ c.status = "connected"}

\* The body of the call to ${N8N_WEBHOOK_URL}/publish.
PublishPayload(post, active, u) ==
    [post |-> [id |-> post.id, content |-> post.content, platforms |-> post.platforms],
     connections |-> {[platform |-> c.platform, accountId |-> GetS(c, "accountId"),
                       accessToken |-> c.accessToken] : c \in active},
     userId |-> u]

\* What axios.post can do: resolve on a 2xx answer, throw otherwise.
WebhookOutcomes == {"ok", "network_error", "http_error"}

\* PublishUpdates with the catch block writing what the try block writes.
PublishUpdates_AlwaysPublished(outcome) ==
    [status |-> "published", publishedAt |-> now]

\* The try block writes 'published' after the call resolved; the catch block
\* writes 'failed'.
PublishUpdates(outcome) ==
    IF outcome = "ok"
    THEN [status |-> "published", publishedAt |-> now]
    ELSE [status |-> "failed"]

\* What a statement of pool.query can do.
DbOutcomes == {"ok", "throws"}

\* publishPost with the outcome of the call to n8n, of the db.updatePost of
\* the try block (write) and of the db.updatePost of the catch block
\* (rewrite).  The catch block receives whatever the try block throws, the
\* error of its own db.updatePost included; what the catch block throws is
\* caught by the outer catch.
publishPostDb(u, id, outcome, write, rewrite) ==
    LET hit == findPostById(posts, id)
        gate == LoadCheck(hit, u)
        post == mapRowToPost(CHOOSE r \in hit : TRUE)
        active == ActiveConnections(post, findConnectionsByUserId(conns, u))
        thrown == IF outcome # "ok" THEN outcome
                  ELSE IF write # "ok" THEN "db_error" ELSE "ok"
        res == IF thrown # "ok" /\ rewrite # "ok" THEN <<posts, <<>>>>
               ELSE dbUpdatePost(posts, id, PublishUpdates(thrown))
    IN  IF gate = 404
        THEN ReplyOnly(Response("publishPost", u, id, <<>>, 404, PostNotFound))
        ELSE IF gate = 403
        THEN ReplyOnly(Response("publishPost", u, id, <<>>, 403, PostForbidden))
        ELSE IF active = {}
        THEN ReplyOnly(Response("publishPost", u, id, <<>>, 400,
                 ErrBody(400, "Bad Request",
                         "Keine verbundenen Accounts für die gewählten Plattformen.")))
        ELSE /\ sent' = <<[payload |-> PublishPayload(post, active, u), outcome |-> outcome]>>
             /\ posts' = res[1]
             /\ resp' = IF thrown = "ok"
                        THEN Response("publishPost", u, id, <<>>, 200,
                                 OkBody(res[2], "Post erfolgreich veröffentlicht!"))
                        ELSE IF rewrite = "ok"
                        THEN Response("publishPost", u, id, <<>>, 500,
                                 ErrBody(500, "Webhook Error",
                                         "Fehler beim Senden an n8n. Bitte prüfe ob n8n läuft."))
                        ELSE Response("publishPost", u, id, <<>>, 500,
                                 ErrBody(500, "Internal Server Error",
                                         "Fehler beim Veröffentlichen des Posts."))
             /\ UNCHANGED <<users, conns, nextId, now, env, inflight, console>>

\* publishPost while the database answers every statement.
publishPost(u, id, outcome) == publishPostDb(u, id, outcome, "ok", "ok")

----------------------------------------------------------------------------
(* Requests *)

PostIdRange == 1..(MaxPosts + 1)
ConnIdRange == 1..(MaxConns + 1)

Authenticated == {r.id : r \in users}

\* No request is being answered.
Idle == resp = NoResponse

\* The response has gone out; the server takes the next request.
Respond ==
    /\ resp # NoResponse
    /\ resp' = NoResponse
    /\ sent' = <<>>
    /\ console' = <<>>
    /\ UNCHANGED <<users, posts, conns, nextId, now, env, inflight>>

----------------------------------------------------------------------------
(* Spec: the posts and connections API after two users have signed up *)

InitApi ==
    /\ users = TwoUsers
    /\ posts = {}
    /\ conns = {}
    /\ nextId = [post |-> 0, conn |-> 0, user |-> 2]
    /\ now = 0
    /\ env = [JWT_SECRET |-> "jwt", WEBHOOK_SECRET |-> NULL]
    /\ resp = NoResponse
    /\ sent = <<>>
    /\ inflight = {}
    /\ console = <<>>

ApiCreateConnectionBodies ==
    {[platform |-> "instagram", accessToken |-> "at1", accountName |-> "acme"],
     [platform |-> "linkedin"]}
ApiUpdateConnectionBodies == {[status |-> "error"]}
ApiReconnectBodies == {[accessToken |-> "at1"]}
ApiCreatePostBodies == {[platforms |-> {"instagram"}, content |-> <<"h", "e", "l", "l", "o">>], [content |-> <<"h", "e", "l", "l", "o">>]}
ApiUpdatePostBodies == {[content |-> <<"b", "y", "e">>]}

ApiCreateConnection ==
    Idle /\ \E u \in Authenticated, b \in ApiCreateConnectionBodies : createConnection(u, b)
ApiUpdateConnection ==
    Idle /\ \E u \in Authenticated, id \in ConnIdRange, b \in ApiUpdateConnectionBodies :
                updateConnection(u, id, b)
ApiDeleteConnection ==
    Idle /\ \E u \in Authenticated, id \in ConnIdRange : deleteConnection(u, id)
ApiReconnectConnection ==
    Idle /\ \E u \in Authenticated, id \in ConnIdRange, b \in ApiReconnectBodies :
                reconnectConnection(u, id, b)
ApiGetPostById ==
    Idle /\ \E u \in Authenticated, id \in PostIdRange : getPostById(u, id)
ApiCreatePost ==
    Idle /\ \E u \in Authenticated, b \in ApiCreatePostBodies : createPost(u, b)
ApiUpdatePost ==
    Idle /\ \E u \in Authenticated, id \in PostIdRange, b \in ApiUpdatePostBodies :
                updatePost(u, id, b)
ApiDeletePost ==
    Idle /\ \E u \in Authenticated, id \in PostIdRange : deletePost(u, id)
ApiPublishPost ==
    Idle /\ \E u \in Authenticated, id \in PostIdRange, o \in WebhookOutcomes :
                publishPost(u, id, o)

NextApi ==
    \/ Respond
    \/ ApiCreateConnection
    \/ ApiUpdateConnection
    \/ ApiDeleteConnection
    \/ ApiReconnectConnection
    \/ ApiGetPostById
    \/ ApiCreatePost
    \/ ApiUpdatePost
    \/ ApiDeletePost
    \/ ApiPublishPost

Spec == InitApi /\ [][NextApi]_vars

----------------------------------------------------------------------------
(* SpecConn: the connections API alone, with a wider choice of bodies *)

ConnCreateBodies ==
    {[platform |-> "instagram", accessToken |-> "at1", accountName |-> "acme", accountId |-> "id1"],
     [platform |-> "instagram", accessToken |-> "at2", accountName |-> "bolt",
      refreshToken |-> "rt2", expiresAt |-> "2027"],
     [platform |-> "linkedin"],
     [platform |-> "tiktok", accessToken |-> "at1"],
     [accessToken |-> "at1"]}
ConnUpdateBodies ==
    {[status |-> "error"], [accessToken |-> "at2"], [platform |-> "linkedin", userId |-> 2]}
ConnReconnectBodies == {[accessToken |-> "at2", refreshToken |-> "rt2"], <<>>}

ConnGetAll == Idle /\ \E u \in Authenticated : getAllConnections(u)
ConnCreate ==
    Idle /\ \E u \in Authenticated, b \in ConnCreateBodies : createConnection(u, b)
ConnUpdate ==
    Idle /\ \E u \in Authenticated, id \in ConnIdRange, b \in ConnUpdateBodies :
                updateConnection(u, id, b)
ConnDelete ==
    Idle /\ \E u \in Authenticated, id \in ConnIdRange : deleteConnection(u, id)
ConnReconnect ==
    Idle /\ \E u \in Authenticated, id \in ConnIdRange, b \in ConnReconnectBodies :
                reconnectConnection(u, id, b)

NextConn ==
    \/ Respond
    \/ ConnGetAll
    \/ ConnCreate
    \/ ConnUpdate
    \/ ConnDelete
    \/ ConnReconnect

SpecConn == InitApi /\ [][NextConn]_vars

----------------------------------------------------------------------------
(* Properties of the posts and connections API *)

PostIdOps == {"getPostById", "updatePost", "deletePost", "publishPost"}
ConnIdOps == {"updateConnection", "deleteConnection", "reconnectConnection"}

\* The rows the request answered by r addressed, in the tables ps and cs.
Addressed(r, ps, cs) ==
    IF r.op \in PostIdOps THEN {q \in ps : q.id = r.id} ELSE {q \in cs : q.id = r.id}

\* C1: an id-addressed handler called by user U with id X answers 404 exactly
\* when no row has id X and 403 exactly when the row's owner is not U; with
\* 404 or 403 no post and no connection changes and no webhook call goes out.
C1_LoadCheckAct ==
    [][(Idle /\ resp'.op \in PostIdOps \cup ConnIdOps) =>
         LET rows == Addressed(resp', posts, conns)
         IN  /\ (resp'.status = 404) <=> (rows = {})
             /\ (resp'.status = 403) <=> (\E q \in rows : q.user_id # resp'.user)
             /\ resp'.status \in {404, 403} =>
                   (posts' = posts /\ conns' = conns /\ sent' = <<>>)]_vars

\* A connection handler has refused the caller a row that exists and is another user's.
C1_Witness ==
    /\ resp.op = "reconnectConnection"
    /\ resp.status = 403
    /\ \E q \in conns : q.id = resp.id /\ q.user_id # resp.user

OneRowPerPair ==
    \A q1, q2 \in conns :
        (q1.user_id = q2.user_id /\ q1.platform = q2.platform) => q1 = q2

\* C8: the connections table never holds two rows of one (userId, platform)
\* pair, and after a createConnection for a pair that already had a row the
\* pair's one row, read back, carries every field the call supplied.
C8_UpsertKeepsSecondCall ==
    /\ []OneRowPerPair
    /\ [][(/\ Idle
           /\ resp'.op = "createConnection"
           /\ resp'.status = 201
           /\ \E q \in conns : q.user_id = resp'.user /\ q.platform = resp'.input.platform) =>
            LET rows == {q \in conns' : /\ q.user_id = resp'.user
                                        /\ q.platform = resp'.input.platform}
            IN  /\ Cardinality(rows) = 1
                /\ \A q \in rows : \A k \in DOMAIN resp'.input :
                       GetS(mapRowToConnection(q), k) = resp'.input[k]]_vars

\* The user's connections, as stored, that publishPost may dispatch to.
Dispatchable(u, post) ==
    {c \in conns : c.user_id = u /\ c.platform \in post.platforms /\ c.status = "connected"}

\* C9: a publish by the owner of a post for which the owner has no connected
\* connection on one of the post's platforms answers 400, calls no webhook
\* and leaves the posts table as it was.
C9_NoConnectedAccounts ==
    [][(/\ Idle
        /\ resp'.op = "publishPost"
        /\ \E q \in posts : q.id = resp'.id /\ q.user_id = resp'.user
                            /\ Dispatchable(resp'.user, q) = {}) =>
          (resp'.status = 400 /\ sent' = <<>> /\ posts' = posts)]_vars

\* A publish was refused with 400 although the owner has a connection.
C9_Witness ==
    /\ resp.op = "publishPost"
    /\ resp.status = 400
    /\ \E c \in conns : c.user_id = resp.user

\* C10: a publish that dispatches calls the webhook once; when the call
\* succeeds the post is stored 'published' with publishedAt set and the
\* answer is 200, when it fails the post is stored 'failed' and the answer
\* is 500.
C10_PublishOutcome ==
    [][(Idle /\ resp'.op = "publishPost" /\ resp'.status \notin {404, 403, 400}) =>
         /\ Len(sent') = 1
         /\ \E q \in posts' :
               /\ q.id = resp'.id
               /\ IF sent'[1].outcome = "ok"
                  THEN resp'.status = 200 /\ q.status = "published" /\ q.published_at # NoTime
                  ELSE resp'.status = 500 /\ q.status = "failed"]_vars

\* A publish whose webhook call failed has been answered.
C10_Witness ==
    /\ resp.op = "publishPost"
    /\ Len(sent) = 1
    /\ sent[1].outcome = "http_error"
    /\ resp.status = 500

----------------------------------------------------------------------------
(* Input sanitization (security.ts) *)

LitScriptOpen == <<"<", "s", "c", "r", "i", "p", "t">>
LitScriptClose == <<"<", "/", "s", "c", "r", "i", "p", "t", ">">>
LitJavascript == <<"j", "a", "v", "a", "s", "c", "r", "i", "p", "t", ":">>
LitOn == <<"o", "n">>

\* /<script\b[^<]*(?:(?!<\/script>)<[^<]*)*<\/script>/i at position i: the
\* position of the last character matched, 0 when there is no match.  The
\* match runs to the end of the first closing tag after the opening one.
ScriptMatchEnd(s, i) ==
    LET after == i + Len(LitScriptOpen)
        closes == {j \in after..Len(s) : MatchCI(s, j, LitScriptClose)}
    IN  IF /\ MatchCI(s, i, LitScriptOpen)
           /\ (after > Len(s) \/ ~IsWordChar(s[after]))
           /\ closes # {}
        THEN Min(closes) + Len(LitScriptClose) - 1
        ELSE 0

\* /<[^>]*>/ at position i.
TagMatchEnd(s, i) ==
    LET closes == {j \in (i + 1)..Len(s) : s[j] = ">"}
    IN  IF s[i] = "<" /\ closes # {} THEN Min(closes) ELSE 0

\* /javascript:/i at position i.
JavascriptMatchEnd(s, i) ==
    IF MatchCI(s, i, LitJavascript) THEN i + Len(LitJavascript) - 1 ELSE 0

\* /on\w+\s*=/i at position i.
OnHandlerMatchEnd(s, i) ==
    LET w == WordRunEnd(s, i + Len(LitOn))
        e == SkipSpace(s, w + 1)
    IN  IF /\ MatchCI(s, i, LitOn)
           /\ w >= i + Len(LitOn)
           /\ e <= Len(s) /\ s[e] = "="
        THEN e
        ELSE 0

\* String.prototype.replace(regex with flag g, ''), one operator per regex:
\* the leftmost match is removed and the scan goes on behind it.
RECURSIVE RemoveScripts(_, _)
RemoveScripts(s, i) ==
    IF i > Len(s) THEN <<>>
    ELSE IF ScriptMatchEnd(s, i) > 0 THEN RemoveScripts(s, ScriptMatchEnd(s, i) + 1)
    ELSE <<s[i]>> \o RemoveScripts(s, i + 1)

RECURSIVE RemoveTags(_, _)
RemoveTags(s, i) ==
    IF i > Len(s) THEN <<>>
    ELSE IF TagMatchEnd(s, i) > 0 THEN RemoveTags(s, TagMatchEnd(s, i) + 1)
    ELSE <<s[i]>> \o RemoveTags(s, i + 1)

RECURSIVE RemoveJavascript(_, _)
RemoveJavascript(s, i) ==
    IF i > Len(s) THEN <<>>
    ELSE IF JavascriptMatchEnd(s, i) > 0
         THEN RemoveJavascript(s, JavascriptMatchEnd(s, i) + 1)
    ELSE <<s[i]>> \o RemoveJavascript(s, i + 1)

RECURSIVE RemoveOnHandlers(_, _)
RemoveOnHandlers(s, i) ==
    IF i > Len(s) THEN <<>>
    ELSE IF OnHandlerMatchEnd(s, i) > 0
         THEN RemoveOnHandlers(s, OnHandlerMatchEnd(s, i) + 1)
    ELSE <<s[i]>> \o RemoveOnHandlers(s, i + 1)

\* String.prototype.trim
RECURSIVE TrimEnd(_)
TrimEnd(s) ==
    IF s # <<>> /\ IsSpace(s[Len(s)]) THEN TrimEnd(SubSeq(s, 1, Len(s) - 1)) ELSE s

Trim(s) == TrimEnd(SubSeq(s, SkipSpace(s, 1), Len(s)))

sanitizeInput(input) ==
    Trim(RemoveOnHandlers(RemoveJavascript(RemoveTags(RemoveScripts(input, 1), 1), 1), 1))

\* A JSON body is the sequence of its members <<key, string value>> in the
\* order of the request text; sanitizeObject keeps keys and order.
sanitizeRequestBody(body) ==
    [i \in DOMAIN body |-> <<body[i][1], sanitizeInput(body[i][2])>>]

----------------------------------------------------------------------------
(* Webhook authentication (security.ts) *)

\* JSON.stringify of a string: quotes, with quote, backslash and the control
\* characters escaped.
RECURSIVE JsonEscape(_)
JsonEscape(s) ==
    IF s = <<>> THEN <<>>
    ELSE (CASE Head(s) \in {"\"", "\\"} -> <<"\\", Head(s)>>
            [] Head(s) = "\n" -> <<"\\", "n">>
            [] Head(s) = "\t" -> <<"\\", "t">>
            [] Head(s) = "\r" -> <<"\\", "r">>
            [] OTHER -> <<Head(s)>>) \o JsonEscape(Tail(s))

RECURSIVE JsonMembers(_)
JsonMembers(body) ==
    IF body = <<>> THEN <<>>
    ELSE <<"\"", Head(body)[1], "\"", ":", "\"">> \o JsonEscape(Head(body)[2]) \o <<"\"">>
         \o (IF Tail(body) = <<>> THEN <<>> ELSE <<",">> \o JsonMembers(Tail(body)))

\* JSON.stringify of a body: its text, one character per element (a key is
\* one element).
JsonStringify(body) == <<"{">> \o JsonMembers(body) \o <<"}">>

\* crypto.createHmac('sha256', key).update(msg).digest('hex'): the digest
\* stands for its key and message, so that two digests are equal exactly when
\* both are.
Hmac(key, msg) == [key |-> key, msg |-> msg]

\* process.env.WEBHOOK_SECRET || ''
WEBHOOK_SECRET == IF Truthy(env.WEBHOOK_SECRET) THEN env.WEBHOOK_SECRET ELSE ""

\* Math.floor(Date.now() / 1000)
CurrentTime == now \div 1000

MaxAge == 300

NoSecret_Never(secret) == FALSE

\* !WEBHOOK_SECRET
NoSecret(secret) == secret = ""

Stale_AtLeast(timestamp) ==
    LET requestTime == ParseInt(timestamp)
    IN  ~requestTime.nan /\ Abs(CurrentTime - requestTime.n) >= MaxAge

\* Math.abs(currentTime - requestTime) > 300, which is false for NaN.
Stale(timestamp) ==
    LET requestTime == ParseInt(timestamp)
    IN  ~requestTime.nan /\ Abs(CurrentTime - requestTime.n) > MaxAge

\* JSON.stringify(req.body) + timestamp, signed with the secret.
ExpectedSignature(secret, body, timestamp) ==
    Hmac(secret, JsonStringify(body) \o timestamp)

PassOn == <<>>

\* The verifier on the body as it reaches it: PassOn for next(), else the
\* body of its 401.
verifyWebhookSignature(secret, signature, timestamp, body) ==
    IF NoSecret(secret) THEN PassOn
    ELSE IF signature = Absent \/ timestamp = Absent
    THEN ErrBody(401, "Unauthorized", "Webhook-Signatur fehlt.")
    ELSE IF Stale(timestamp)
    THEN ErrBody(401, "Unauthorized", "Webhook-Request abgelaufen.")
    ELSE IF signature # ExpectedSignature(secret, body, timestamp)
    THEN ErrBody(401, "Unauthorized", "Ungültige Webhook-Signatur.")
    ELSE PassOn

----------------------------------------------------------------------------
(* The n8n callback route (index.ts) *)

Field(body, k) ==
    IF \E i \in DOMAIN body : body[i][1] = k
    THEN body[CHOOSE i \in DOMAIN body : body[i][1] = k][2]
    ELSE Absent

\* The statuses the callback accepts, with their spelling.
validStatuses ==
    [published |-> <<"p", "u", "b", "l", "i", "s", "h", "e", "d">>,
     failed |-> <<"f", "a", "i", "l", "e", "d">>,
     pending |-> <<"p", "e", "n", "d", "i", "n", "g">>]

\* The status that is spelled s.
StatusNamed(s) == CHOOSE w \in DOMAIN validStatuses : validStatuses[w] = s

\* The spelling of a row id in a request.
IdString(id) == ToStr(id)

\* The id a request names: ids are compared as strings.
PostIdNamed(table, s) ==
    IF \E r \in table : IdString(r.id) = s
    THEN (CHOOSE r \in table : IdString(r.id) = s).id
    ELSE NoId

\* The handler behind the verifier, on the sanitized body.
n8nCallback(req, body) ==
    LET postId == Field(body, "postId")
        status == Field(body, "status")
        id == PostIdNamed(posts, postId)
    IN  IF postId = Absent
        THEN ReplyOnly(Response("callback", NoId, NoId, req, 400,
                 ErrBody(400, "Bad Request", "postId ist erforderlich.")))
        ELSE IF status # Absent /\ status \notin Range(validStatuses)
        THEN ReplyOnly(Response("callback", NoId, NoId, req, 400,
                 ErrBody(400, "Bad Request", "Ungültiger Status.")))
        ELSE /\ posts' =
                  IF findPostById(posts, id) = {} THEN posts
                  ELSE dbUpdatePost(posts, id,
                           [status |-> IF status = Absent THEN "published"
                                       ELSE StatusNamed(status),
                            publishedAt |-> IF status = validStatuses.published
                                            THEN now ELSE NoTime])[1]
             /\ resp' = Response("callback", NoId, id, req, 200,
                            [success |-> TRUE, received |-> TRUE])
             /\ sent' = <<>>
             /\ UNCHANGED <<users, conns, nextId, now, env, inflight, console>>

\* POST /api/webhook/n8n/callback through express.json, sanitizeRequestBody,
\* verifyWebhookSignature and the handler.
Callback(req) ==
    LET body == sanitizeRequestBody(req.body)
        verdict == verifyWebhookSignature(WEBHOOK_SECRET, req.signature,
                                          req.timestamp, body)
    IN  IF verdict # PassOn
        THEN ReplyOnly(AnsweredBy("verifyWebhookSignature",
                 Response("callback", NoId, NoId, req, 401, verdict)))
        ELSE n8nCallback(req, body)

----------------------------------------------------------------------------
(* SpecWebhook: callbacks of any sender against the posts of the two users *)

\* The server clock of the run: a whole second, and the last millisecond of it.
WebhookClocks == {1000000, 1000999}

WebhookSecrets == {NULL, "whsec"}

\* What a sender puts into the timestamp header: instants at the edges of the
\* window, in the past and in the future, no header, and text that is no number.
TimestampHeaders ==
    {ToStr(CurrentTime + d) : d \in {0 - (MaxAge + 1), 0 - MaxAge, 0, MaxAge, MaxAge + 1}}
        \cup {Absent, <<"x">>}

CallbackBodies ==
    {<<<<"postId", <<"1">>>>, <<"status", validStatuses.published>>>>,
     <<<<"postId", <<" ", "1">>>>, <<"status", validStatuses.published>>>>,
     <<<<"postId", <<"1">>>>, <<"status", validStatuses.failed>>>>,
     <<<<"postId", <<"1">>>>, <<"status", <<"<", "b", ">">> \o validStatuses.failed>>>>,
     <<<<"postId", <<"1">>>>, <<"status", <<"d", "o", "n", "e">>>>>>,
     <<<<"postId", <<"2">>>>>>,
     <<>>}

\* What a sender puts into the signature header: nothing, a digest under a
\* key of its own, or the digest under the shared secret of a body and a
\* timestamp.
SignatureHeaders ==
    {Absent, Hmac("guess", <<>>)}
        \cup {ExpectedSignature("whsec", b, t) :
                b \in CallbackBodies, t \in TimestampHeaders \ {Absent}}

InitWebhook ==
    /\ users = TwoUsers
    /\ posts = {}
    /\ conns = {}
    /\ nextId = [post |-> 0, conn |-> 0, user |-> 2]
    /\ now \in WebhookClocks
    /\ env \in {[JWT_SECRET |-> "jwt", WEBHOOK_SECRET |-> k] : k \in WebhookSecrets}
    /\ resp = NoResponse
    /\ sent = <<>>
    /\ inflight = {}
    /\ console = <<>>

WebhookCreatePost ==
    Idle /\ \E u \in Authenticated : createPost(u, [platforms |-> {"instagram"}, content |-> <<"h", "e", "l", "l", "o">>])
WebhookCallback ==
    Idle /\ \E b \in CallbackBodies, sig \in SignatureHeaders, t \in TimestampHeaders :
                Callback([body |-> b, signature |-> sig, timestamp |-> t])

NextWebhook ==
    \/ Respond
    \/ WebhookCreatePost
    \/ WebhookCallback

SpecWebhook == InitWebhook /\ [][NextWebhook]_vars

----------------------------------------------------------------------------
(* Properties of the webhook pipeline *)

\* The deployment has a webhook secret.
SecretConfigured == env.WEBHOOK_SECRET \notin {NULL, ""}

\* The callback that the step answers.
CallbackStep == resp = NoResponse /\ resp'.op = "callback"

\* The handler ran: the verifier passed the request on.
PassedOn(r) == r.by = "callback"

\* The verifier answered 401 and the handler did not run.
Rejected(r) == r.by = "verifyWebhookSignature" /\ r.status = 401 /\ posts' = posts

\* C2: with a secret configured, a callback whose signature is the digest of
\* the body the verifier receives and of its timestamp header is passed on
\* when the timestamp is exactly 300 seconds from the clock (in whole
\* seconds), and answered 401 when it is exactly 301 seconds from it, in the
\* past and in the future.
C2_StalenessBoundary ==
    [][CallbackStep /\ SecretConfigured =>
         \A sign \in {0 - 1, 1}, d \in {MaxAge, MaxAge + 1} :
            LET t == ToStr(CurrentTime + sign * d)
                req == resp'.input
            IN  (/\ req.timestamp = t
                 /\ req.signature = ExpectedSignature(WEBHOOK_SECRET,
                                        sanitizeRequestBody(req.body), t))
                => IF d = MaxAge THEN PassedOn(resp') ELSE Rejected(resp')]_vars

C2_Witness ==
    /\ resp.op = "callback" /\ PassedOn(resp) /\ SecretConfigured
    /\ resp.input.timestamp = ToStr(CurrentTime + MaxAge)
    /\ resp.input.signature = ExpectedSignature(WEBHOOK_SECRET,
                                  sanitizeRequestBody(resp.input.body),
                                  resp.input.timestamp)

\* C3: with a secret configured, a callback that carries a body together with
\* the signature and timestamp computed for a different body is answered 401
\* by the verifier and the handler does not run.
C3_TamperedBodyRejected ==
    [][CallbackStep /\ SecretConfigured =>
         \A b \in CallbackBodies :
            LET req == resp'.input
            IN  (/\ b # req.body
                 /\ req.timestamp # Absent
                 /\ req.signature = ExpectedSignature(WEBHOOK_SECRET, b, req.timestamp))
                => Rejected(resp')]_vars

\* C4: a callback without signature header or without timestamp header is
\* answered 401 by the verifier exactly when a secret is configured; without
\* a secret every callback reaches the handler.
C4_HeadersRequiredIffSecret ==
    [][CallbackStep =>
         LET req == resp'.input
         IN  /\ (req.signature = Absent \/ req.timestamp = Absent)
                  => (Rejected(resp') <=> SecretConfigured)
             /\ ~SecretConfigured => PassedOn(resp')]_vars

C4_Witness ==
    /\ resp.op = "callback" /\ PassedOn(resp) /\ ~SecretConfigured
    /\ resp.input.signature = Absent /\ resp.input.timestamp = Absent
    /\ resp.status = 200 /\ \E r \in posts : r.status = "published"

----------------------------------------------------------------------------
(* Tokens (jsonwebtoken) *)

\* '7d', in seconds
TokenTTL == 604800

\* jwt.sign(payload, key, {expiresIn}): the payload with iat and exp in whole
\* seconds, and the key that signed it.
JwtSign(userId, key, ttl) ==
    [userId |-> userId, iat |-> CurrentTime, exp |-> CurrentTime + ttl, key |-> key]

JwtVerifies_NoExpiry(token, key) ==
    /\ "key" \in DOMAIN token
    /\ token.key = key

\* jwt.verify(token, key) returns the payload; it throws a JsonWebTokenError
\* for text that is no token, for another key's signature and, as
\* TokenExpiredError, from the second exp on.
JwtVerifies(token, key) ==
    /\ "key" \in DOMAIN token
    /\ token.key = key
    /\ CurrentTime < token.exp

----------------------------------------------------------------------------
(* Auth controller *)

\* process.env.JWT_SECRET || 'fallback-secret-nicht-sicher'
ControllerJwtSecret ==
    IF Truthy(env.JWT_SECRET) THEN env.JWT_SECRET ELSE "fallback-secret-nicht-sicher"

generateToken_Fallback(userId) ==
    JwtSign(userId, "fallback-secret-nicht-sicher", TokenTTL)

generateToken(userId) == JwtSign(userId, ControllerJwtSecret, TokenTTL)

toSafeUser_Identity(user) == user

\* const { password, ...safeUser } = user
toSafeUser(user) == [k \in DOMAIN user \ {"password"} |-> user[k]]

\* A field of a body whose strings are character sequences.
GetQ(body, k) == IF k \in DOMAIN body THEN body[k] ELSE Absent

\* /^[^\s@]+@[^\s@]+\.[^\s@]+$/
emailRegexTest(s) ==
    /\ \A i \in DOMAIN s : ~IsSpace(s[i])
    /\ \E at \in DOMAIN s :
          /\ s[at] = "@"
          /\ \A i \in DOMAIN s : s[i] = "@" => i = at
          /\ at > 1
          /\ \E dot \in (at + 2)..(Len(s) - 1) : s[dot] = "."

\* The message of the error the INSERT throws.
InsertErrorMessage == "duplicate key value violates unique constraint"

\* A line on the console: the text of the call and the object or the
\* values printed with it.
Line(text, args) == [text |-> text, args |-> args]

\* The request logger of index.ts: method and path, nothing of the body.
RequestLine(path) == Line("POST " \o path, <<>>)

\* What signup logs for a request it answers with the status: the body as
\* it came, the parsed fields with the password starred, and the line of
\* its outcome.
signupLog(body, status) ==
    <<RequestLine("/api/auth/signup"),
      Line("Signup request body:", body),
      Line("Parsed data:",
           [email |-> GetQ(body, "email"), password |-> <<"*", "*", "*">>,
            firstName |-> GetS(body, "firstName"), lastName |-> GetS(body, "lastName")])>>
        \o (IF status = 201
            THEN <<Line("Neuer Benutzer registriert:", [email |-> GetQ(body, "email")])>>
            ELSE IF status = 500
            THEN <<Line("Database Error beim User erstellen:", [message |-> InsertErrorMessage]),
                   Line("Signup Fehler Details:", [message |-> InsertErrorMessage])>>
            ELSE <<>>)

\* What login logs: the line of a successful login names the email.
loginLog(body, status) ==
    <<RequestLine("/api/auth/login")>>
        \o (IF status = 200
            THEN <<Line("Benutzer eingeloggt:", [email |-> GetQ(body, "email")])>>
            ELSE <<>>)

\* What signup answers before it creates anything: the body of a 400 or of
\* the 409, or PassOn when the request may go on.
signupChecks(table, body) ==
    LET email == GetQ(body, "email")
        password == GetQ(body, "password")
    IN  IF \/ email = Absent \/ password = Absent
           \/ ~Truthy(GetS(body, "firstName")) \/ ~Truthy(GetS(body, "lastName"))
        THEN ErrBody(400, "Bad Request", "Alle Felder müssen ausgefüllt sein.")
        ELSE IF ~emailRegexTest(email)
        THEN ErrBody(400, "Bad Request", "Ungültige E-Mail-Adresse.")
        ELSE IF findUserByEmail(table, email) # {}
        THEN ErrBody(409, "Conflict", "Diese E-Mail-Adresse ist bereits registriert.")
        ELSE PassOn

\* signup behind its checks: the password is hashed, the user is built and
\* inserted; an INSERT that throws is answered in the catch block.
signupCreate(body) ==
    LET firstName == GetS(body, "firstName")
        lastName == GetS(body, "lastName")
        newUser ==
            [id |-> nextId.user + 1, email |-> ToLower(GetQ(body, "email")),
             password |-> BcryptHash(GetQ(body, "password")),
             name |-> <<firstName, " ", lastName>>,
             firstName |-> firstName, lastName |-> lastName, role |-> "user",
             createdAt |-> now, updatedAt |-> now]
    IN  /\ nextId.user < MaxUsers
        /\ IF UserInsertFails(users, newUser)
           THEN /\ users' = users
                /\ nextId' = nextId
                /\ resp' = Response("signup", NoId, NoId, body, 500,
                               ErrBody(500, "Internal Server Error", InsertErrorMessage))
                /\ console' = signupLog(body, 500)
           ELSE /\ users' = dbCreateUser(users, newUser)
                /\ nextId' = [nextId EXCEPT !.user = @ + 1]
                /\ resp' = Response("signup", NoId, newUser.id, body, 201,
                               OkBody([user |-> toSafeUser(newUser),
                                       token |-> generateToken(newUser.id)],
                                      "Erfolgreich registriert!"))
                /\ console' = signupLog(body, 201)
        /\ sent' = <<>>
        /\ UNCHANGED <<posts, conns, now, env>>

\* signup without another request in between.
signup(body) ==
    LET rejection == signupChecks(users, body)
    IN  IF rejection # PassOn
        THEN ReplyLogging(Response("signup", NoId, NoId, body, rejection.statusCode, rejection),
                          signupLog(body, rejection.statusCode))
        ELSE signupCreate(body) /\ UNCHANGED inflight

LoginNoUser_NotFound == ErrBody(404, "Not Found", "Benutzer nicht gefunden.")

\* The answer when no user has the email.
LoginNoUser == ErrBody(401, "Unauthorized", "E-Mail oder Passwort ist falsch.")

\* The answer when the password does not match the user's hash.
LoginBadPassword == ErrBody(401, "Unauthorized", "E-Mail oder Passwort ist falsch.")

\* The body login answers with, against the users table given.
LoginReply(table, body) ==
    LET email == GetQ(body, "email")
        password == GetQ(body, "password")
        hit == findUserByEmail(table, email)
        user == mapRowToUser(CHOOSE r \in hit : TRUE)
    IN  IF email = Absent \/ password = Absent
        THEN ErrBody(400, "Bad Request", "E-Mail und Passwort sind erforderlich.")
        ELSE IF hit = {} THEN LoginNoUser
        ELSE IF ~BcryptCompare(password, user.password) THEN LoginBadPassword
        ELSE OkBody([user |-> toSafeUser(user), token |-> generateToken(user.id)],
                    "Erfolgreich eingeloggt!")

login(body) ==
    LET reply == LoginReply(users, body)
        status == IF reply.success THEN 200 ELSE reply.statusCode
    IN  ReplyLogging(Response("login", NoId, NoId, body, status, reply),
                     loginLog(body, status))

----------------------------------------------------------------------------
(* Auth middleware *)

\* An Authorization header is absent or a scheme prefix with the text behind
\* it; extractToken returns the text behind 'Bearer '.
extractToken(authHeader) ==
    IF authHeader # Absent /\ authHeader.scheme = "Bearer " THEN authHeader.token ELSE Absent

Bearer(token) == [scheme |-> "Bearer ", token |-> token]

\* The safe user that requireAuth attaches to the request.
safeUser(user) ==
    [id |-> user.id, email |-> user.email, name |-> user.name,
     firstName |-> user.firstName, lastName |-> user.lastName,
     company |-> user.company, role |-> user.role, avatar |-> user.avatar,
     createdAt |-> user.createdAt, updatedAt |-> user.updatedAt]

\* requireAuth: the safe user for next(), or the body of its 401.
requireAuth(authHeader) ==
    LET token == extractToken(authHeader)
        hit == findUserById(users, token.userId)
    IN  IF token = Absent
        THEN [next |-> FALSE,
              body |-> ErrBody(401, "Unauthorized", "Kein Token vorhanden. Bitte einloggen.")]
        ELSE IF ~JwtVerifies(token, env.JWT_SECRET)
        THEN [next |-> FALSE,
              body |-> ErrBody(401, "Unauthorized", "Ungültiger Token. Bitte erneut einloggen.")]
        ELSE IF hit = {}
        THEN [next |-> FALSE,
              body |-> ErrBody(401, "Unauthorized", "Benutzer nicht gefunden.")]
        ELSE [next |-> TRUE, user |-> safeUser(mapRowToUser(CHOOSE r \in hit : TRUE))]

\* A route behind requireAuth: the 401 of the middleware, or the 200 of the
\* handler with the body given.
Protected(op, authHeader, body) ==
    LET auth == requireAuth(authHeader)
    IN  IF ~auth.next
        THEN ReplyOnly(AnsweredBy("requireAuth",
                 Response(op, NoId, NoId, [authorization |-> authHeader], 401, auth.body)))
        ELSE ReplyOnly(Response(op, auth.user.id, NoId, [authorization |-> authHeader],
                                200, body))

\* me answers with req.user.
me(authHeader) ==
    Protected("me", authHeader, [success |-> TRUE, data |-> requireAuth(authHeader).user])

logout(authHeader) ==
    Protected("logout", authHeader,
              [success |-> TRUE, data |-> NULL, message |-> "Erfolgreich ausgeloggt!"])

----------------------------------------------------------------------------
(* SpecAuth: signup, login, logout and me from an empty users table *)

\* The instants of the run: start, one second on, and the last millisecond
\* before, the first of and a second after the expiry of a token of the start.
AuthClocks == {0, 1000, TokenTTL * 1000 - 1, TokenTTL * 1000, (TokenTTL + 1) * 1000}

Emails ==
    {<<"a", "@", "b", ".", "c">>, <<"A", "@", "b", ".", "C">>,
     <<"d", "@", "e", ".", "f">>, <<"a", "b", ".", "c">>}

Passwords ==
    {<<"P", "w", "1", "!">>, <<"p", "w", "2", "?">>,
     <<"S", "e", "c", "r", "e", "t", "-", "9">>}

SignupBodies ==
    {[email |-> e, password |-> p, firstName |-> "Ada", lastName |-> "Byron"] :
        e \in Emails, p \in Passwords}
        \cup {[email |-> <<"d", "@", "e", ".", "f">>, password |-> <<"P", "w", "1", "!">>]}

LoginBodies ==
    {[email |-> e, password |-> p] : e \in Emails, p \in Passwords}
        \cup {[email |-> <<"d", "@", "e", ".", "f">>]}

\* Headers of a client that holds no token of the server: none, another
\* scheme, text that is no token, and tokens signed with another key.
ForeignHeaders ==
    {Absent, [scheme |-> "Basic ", token |-> [text |-> "abc"]], Bearer([text |-> "abc"])}
        \cup {Bearer(JwtSign(u, "fallback-secret-nicht-sicher", TokenTTL)) : u \in 1..MaxUsers}

\* The last response carries a token.
TokenReturned == resp.op \in {"signup", "login"} /\ resp.body.success

InitAuth ==
    /\ users = {}
    /\ posts = {}
    /\ conns = {}
    /\ nextId = [post |-> 0, conn |-> 0, user |-> 0]
    /\ now = 0
    /\ env = [JWT_SECRET |-> "jwt", WEBHOOK_SECRET |-> NULL]
    /\ resp = NoResponse
    /\ sent = <<>>
    /\ inflight = {}
    /\ console = <<>>

\* Time passes, also while a client holds a response.
Tick ==
    /\ \E t \in AuthClocks : t > now /\ now' = t
    /\ UNCHANGED <<users, posts, conns, nextId, env, resp, sent, inflight, console>>

AuthSignup == Idle /\ \E b \in SignupBodies : signup(b)
AuthLogin == Idle /\ \E b \in LoginBodies : login(b)
AuthMe == Idle /\ \E h \in ForeignHeaders : me(h)
AuthLogout == Idle /\ \E h \in ForeignHeaders : logout(h)
\* The client presents the token it has just been given.
AuthMeWithToken == TokenReturned /\ me(Bearer(resp.body.data.token))
AuthLogoutWithToken == TokenReturned /\ logout(Bearer(resp.body.data.token))

NextAuth ==
    \/ Respond
    \/ Tick
    \/ AuthSignup
    \/ AuthLogin
    \/ AuthMe
    \/ AuthLogout
    \/ AuthMeWithToken
    \/ AuthLogoutWithToken

SpecAuth == InitAuth /\ [][NextAuth]_vars

----------------------------------------------------------------------------
(* Properties of signup, login and me *)

\* The user object of a successful signup, login or me response.
ReturnedUser(r) == IF r.op = "me" THEN r.body.data ELSE r.body.data.user

\* The object is the stored row of its id without the password: it has no
\* password field, every field it has is the stored one, and a field it
\* lacks is null in the row.
SafeViewOf(user, table) ==
    /\ "password" \notin DOMAIN user
    /\ \E r \in table :
          /\ r.id = user.id
          /\ DOMAIN user \subseteq DOMAIN mapRowToUser(r)
          /\ \A k \in DOMAIN mapRowToUser(r) \ {"password"} :
                IF k \in DOMAIN user THEN user[k] = mapRowToUser(r)[k]
                ELSE mapRowToUser(r)[k] = NULL

\* C5: no response body of signup, login or me has a password field, at the
\* top, in data or in the user object, and the user object returned is the
\* stored user without its password.
C5_NoPasswordInResponse ==
    resp.op \in {"signup", "login", "me"} =>
        /\ "password" \notin DOMAIN resp.body
        /\ resp.body.success =>
              /\ "password" \notin DOMAIN resp.body.data
              /\ SafeViewOf(ReturnedUser(resp), users)

C5_Witness ==
    /\ resp.op = "login" /\ resp.status = 200
    /\ \E r \in users : r.id = resp.body.data.user.id /\ r.password = BcryptHash(resp.input.password)

\* A login is answered in this step.
LoginStep == resp = NoResponse /\ resp'.op = "login"

\* C6: a login with a non-empty email and a non-empty password that is not
\* the password of a user with that email is answered 401, with the status
\* and body it gets when no user has the email and when a user with another
\* password has it.
C6_WrongPasswordLooksLikeNoUser ==
    [][LoginStep =>
         LET email == GetQ(resp'.input, "email")
             password == GetQ(resp'.input, "password")
             others == {r \in users : ToLower(r.email) # ToLower(email)}
             someone == [id |-> 0, email |-> ToLower(email),
                         password |-> BcryptHash(password \o <<"x">>),
                         name |-> <<>>, first_name |-> NULL, last_name |-> NULL,
                         company |-> NULL, role |-> "user", avatar |-> NULL,
                         created_at |-> 0, updated_at |-> 0]
         IN  (/\ email # Absent /\ password # Absent
              /\ \A r \in users :
                    ToLower(r.email) = ToLower(email) => r.password # BcryptHash(password))
             => /\ resp'.status = 401
                /\ \A table \in {others, others \cup {someone}} :
                      /\ resp'.body = LoginReply(table, resp'.input)
                      /\ resp'.status = LoginReply(table, resp'.input).statusCode]_vars

C6_Witness ==
    /\ resp.op = "login" /\ resp.status = 401
    /\ \E r \in users :
          /\ ToLower(r.email) = ToLower(resp.input.email)
          /\ r.password # BcryptHash(resp.input.password)

\* C7: a login with a stored user's email in any letter case and that user's
\* password is answered 200 with the user's id and a token; the token,
\* presented as Bearer token to a route behind requireAuth before its expiry,
\* is accepted and resolves to the same user id.
C7_LoginTokenRoundTrip ==
    [][/\ LoginStep =>
            \A r \in users :
               (/\ ToLower(GetQ(resp'.input, "email")) = r.email
                /\ r.password = BcryptHash(GetQ(resp'.input, "password")))
               => /\ resp'.status = 200
                  /\ resp'.body.data.user.id = r.id
                  /\ resp'.body.data.token.userId = r.id
       /\ (/\ resp.op = "login" /\ resp.status = 200
           /\ resp'.op = "me"
           /\ resp'.input.authorization = Bearer(resp.body.data.token)
           /\ CurrentTime < resp.body.data.token.iat + TokenTTL)
          => /\ resp'.status = 200
             /\ resp'.by = "me"
             /\ resp'.user = resp.body.data.user.id
             /\ resp'.body.data.id = resp.body.data.user.id]_vars

C7_Witness ==
    /\ resp.op = "me" /\ resp.status = 200
    /\ resp.input.authorization.token.iat = 0
    /\ CurrentTime = TokenTTL - 1
    /\ \E r \in users : r.id = resp.body.data.id /\ r.id = resp.input.authorization.token.userId

----------------------------------------------------------------------------
(* Password validation (security.ts) *)

\* [!@#$%^&*()_+\-=\[\]{};':"\\|,.<>\/?]
PasswordSymbols ==
    {"!", "@", "#", "$", "%", "^", "&", "*", "(", ")", "_", "+", "-", "=",
     "[", "]", "{", "}", ";", "'", ":", "\"", "\\", "|", ",", ".", "<", ">",
     "/", "?"}

\* validatePassword(password).isValid
validatePassword(password) ==
    /\ ~(Len(password) < 8)
    /\ ~(Len(password) > 128)
    /\ \E i \in DOMAIN password : IsUpper(password[i])
    /\ \E i \in DOMAIN password : IsLower(password[i])
    /\ \E i \in DOMAIN password : IsDigit(password[i])
    /\ \E i \in DOMAIN password : password[i] \in PasswordSymbols

\* A signup is answered in this step.
SignupStep == resp = NoResponse /\ resp'.op = "signup"

\* C11: a signup whose password fails the password policy is answered 400
\* and creates no user; a user row is created only for a password that
\* satisfies the policy.
C11_SignupEnforcesPasswordPolicy ==
    [][SignupStep =>
         LET password == GetQ(resp'.input, "password")
         IN  /\ ~validatePassword(password) => resp'.status = 400 /\ users' = users
             /\ users' # users => validatePassword(password)]_vars

----------------------------------------------------------------------------
(* SpecSignupRace: signups that overlap.  A signup waits at its awaits, and *)
(* other requests run between its look-up of the email and its INSERT.     *)

MaxInflight == 2

\* A number for a request that starts to wait.
FreeRid == Min({n \in 1..MaxInflight : \A q \in inflight : q.rid # n})

\* The request waits at an await, holding what it has read.
Await(op, held) ==
    /\ Cardinality(inflight) < MaxInflight
    /\ inflight' = inflight \cup {[rid |-> FreeRid, op |-> op, held |-> held]}
    /\ UNCHANGED <<users, posts, conns, nextId, now, env, resp, sent, console>>

\* signup up to the await behind db.findUserByEmail.
signupBegin(body) ==
    LET rejection == signupChecks(users, body)
    IN  IF rejection # PassOn
        THEN ReplyLogging(Response("signup", NoId, NoId, body, rejection.statusCode, rejection),
                          signupLog(body, rejection.statusCode))
        ELSE Await("signup", body)

\* signup from bcrypt.hash to its answer.
signupResume(q) ==
    /\ q.op = "signup"
    /\ signupCreate(q.held)
    /\ inflight' = inflight \ {q}

RaceSignupBodies ==
    {[email |-> e, password |-> <<"S", "e", "c", "r", "e", "t", "-", "9">>,
      firstName |-> f, lastName |-> "Byron"] :
        e \in {<<"a", "@", "b", ".", "c">>, <<"A", "@", "b", ".", "C">>,
               <<"d", "@", "e", ".", "f">>},
        f \in {"Ada", "Bob"}}
        \cup {[email |-> <<"a", "@", "b", ".", "c">>, firstName |-> "Ada", lastName |-> "Byron"]}

RaceSignupBegin == Idle /\ \E b \in RaceSignupBodies : signupBegin(b)
RaceSignupResume == Idle /\ \E q \in inflight : signupResume(q)
RaceLogin == Idle /\ \E b \in LoginBodies : login(b)

NextSignupRace ==
    \/ Respond
    \/ RaceSignupBegin
    \/ RaceSignupResume
    \/ RaceLogin

SpecSignupRace == InitAuth /\ [][NextSignupRace]_vars

\* C12: no two stored users have emails that are equal without regard to
\* letter case, also after signups that overlap.
C12_EmailsUniqueIgnoringCase ==
    \A r1, r2 \in users : ToLower(r1.email) = ToLower(r2.email) => r1 = r2

\* Two signups for one email overlapped: one inserted its row, the INSERT of
\* the other was refused.
C12_Witness ==
    /\ resp.op = "signup" /\ resp.status = 500
    /\ \E r \in users : r.email = ToLower(resp.input.email)

\* The signup answered in the step is well-formed and its email is
\* registered when it is answered.
SignupOfRegisteredEmail ==
    /\ SignupStep
    /\ signupChecks({}, resp'.input) = PassOn
    /\ users' = users
    /\ \E r \in users : ToLower(r.email) = ToLower(resp'.input.email)

\* C13: a signup that creates no user because its email is registered is
\* answered 409, also when the other signup inserted its row between this
\* one's look-up and its INSERT.
C13_DuplicateSignupIs409 ==
    [][SignupOfRegisteredEmail => resp'.status = 409]_vars

----------------------------------------------------------------------------
(* SpecCreate: createPost and createConnection with well-formed and with   *)
(* ill-formed bodies                                                        *)

CreatePostBodies ==
    {[platforms |-> {"instagram"}, content |-> <<"h", "e", "l", "l", "o">>],
     [platforms |-> {"instagram", "linkedin"}, topic |-> <<"n", "e", "w", "s">>, scheduledAt |-> 5],
     [platforms |-> {}, content |-> <<"h", "e", "l", "l", "o">>],
     [content |-> <<"h", "e", "l", "l", "o">>]}

CreatePost == Idle /\ \E u \in Authenticated, b \in CreatePostBodies : createPost(u, b)
CreateConnection == Idle /\ \E u \in Authenticated, b \in ConnCreateBodies : createConnection(u, b)

NextCreate ==
    \/ Respond
    \/ CreatePost
    \/ CreateConnection

SpecCreate == InitApi /\ [][NextCreate]_vars

\* C14: createPost without platforms or with none, and createConnection
\* without platform or with one outside instagram, linkedin, facebook,
\* instagram-feed, instagram-reels, are answered 400 and change no row; a
\* connection row that appears has a platform of that list and a post row
\* that appears has at least one platform.
C14_CreateValidation ==
    [][/\ (resp = NoResponse /\ resp'.op = "createPost") =>
            LET b == resp'.input
            IN  /\ ("platforms" \notin DOMAIN b \/ b.platforms = {})
                     => resp'.status = 400 /\ posts' = posts /\ conns' = conns
                /\ \A r \in posts' \ posts : r.platforms # {}
       /\ (resp = NoResponse /\ resp'.op = "createConnection") =>
            LET b == resp'.input
                allowed == {"instagram", "linkedin", "facebook",
                            "instagram-feed", "instagram-reels"}
            IN  /\ ("platform" \notin DOMAIN b \/ b.platform \notin allowed)
                     => resp'.status = 400 /\ posts' = posts /\ conns' = conns
                /\ \A r \in conns' \ conns : r.platform \in allowed]_vars

C14_Witness ==
    /\ resp.op = "createConnection" /\ resp.status = 400
    /\ "platform" \in DOMAIN resp.input /\ resp.input.platform = "tiktok"
    /\ conns # {} /\ posts # {}

----------------------------------------------------------------------------
(* SpecGate: the routes behind requireAuth, called with any Authorization  *)
(* header.  requireAuth answers 401 or attaches the user and calls next();  *)
(* the handler is the step after it.                                        *)

\* A token that generateToken made at the second iat.
IssuedToken(userId, iat, key) ==
    [userId |-> userId, iat |-> iat, exp |-> iat + TokenTTL, key |-> key]

\* The controller of /api/analytics is not part of the sources at hand: its
\* handlers read the caller's posts and write nothing.
getDashboard(u) ==
    ReplyOnly(Response("getDashboard", u, NoId, <<>>, 200,
                       OkBody(findPostsByUserId(posts, u), "")))

getPostAnalytics(u, id) ==
    ReplyOnly(Response("getPostAnalytics", u, id, <<>>, 200,
                       OkBody({r \in findPostsByUserId(posts, u) : r.id = id}, "")))

\* router.use(requireAuth) in front of the route op.
requireAuthFor(op, authHeader) ==
    LET auth == requireAuth(authHeader)
    IN  IF ~auth.next
        THEN ReplyOnly(AnsweredBy("requireAuth",
                 Response(op, NoId, NoId, [authorization |-> authHeader], 401, auth.body)))
        ELSE ReplyOnly(AnsweredBy("requireAuth",
                 Response(op, auth.user.id, NoId, [authorization |-> authHeader], 0, <<>>)))

\* requireAuth has called next() for the route op.
Admitted(op) == resp.op = op /\ resp.by = "requireAuth" /\ resp.status = 0

GateOps ==
    {"getAllPosts", "getPostById", "createPost", "updatePost", "deletePost",
     "publishPost", "getAllConnections", "createConnection", "updateConnection",
     "deleteConnection", "reconnectConnection", "getDashboard", "getPostAnalytics"}

\* Headers of any client: none, another scheme, text that is no token, a
\* token of user 1 made at second 0, the same under another key, and a
\* token for an id without row.
GateHeaders ==
    {Absent, [scheme |-> "Basic ", token |-> [text |-> "abc"]], Bearer([text |-> "abc"]),
     Bearer(IssuedToken(1, 0, env.JWT_SECRET)),
     Bearer(IssuedToken(1, 0, "fallback-secret-nicht-sicher")),
     Bearer(IssuedToken(MaxUsers + 1, 0, env.JWT_SECRET))}

\* The last millisecond in which a token of second 0 is valid, and the next.
GateClocks == {TokenTTL * 1000 - 1, TokenTTL * 1000}

InitGate ==
    /\ users = TwoUsers
    /\ posts = {}
    /\ conns = {}
    /\ nextId = [post |-> 0, conn |-> 0, user |-> 2]
    /\ now \in GateClocks
    /\ env = [JWT_SECRET |-> "jwt", WEBHOOK_SECRET |-> NULL]
    /\ resp = NoResponse
    /\ sent = <<>>
    /\ inflight = {}
    /\ console = <<>>

\* The clock passes the expiry of the tokens issued at second 0.
GateTick ==
    /\ Idle
    /\ now < TokenTTL * 1000
    /\ now' = TokenTTL * 1000
    /\ UNCHANGED <<users, posts, conns, nextId, env, resp, sent, inflight, console>>

GateRequireAuth ==
    Idle /\ \E op \in GateOps, h \in GateHeaders : requireAuthFor(op, h)
GateMe == Idle /\ \E h \in GateHeaders : me(h)
GateLogout == Idle /\ \E h \in GateHeaders : logout(h)
GateGetAllPosts == Admitted("getAllPosts") /\ getAllPosts(resp.user)
GateGetPostById ==
    Admitted("getPostById") /\ \E id \in PostIdRange : getPostById(resp.user, id)
GateCreatePost ==
    Admitted("createPost") /\ \E b \in ApiCreatePostBodies : createPost(resp.user, b)
GateUpdatePost ==
    Admitted("updatePost") /\ \E id \in PostIdRange, b \in ApiUpdatePostBodies :
                                  updatePost(resp.user, id, b)
GateDeletePost ==
    Admitted("deletePost") /\ \E id \in PostIdRange : deletePost(resp.user, id)
GatePublishPost ==
    Admitted("publishPost") /\ \E id \in PostIdRange, o \in WebhookOutcomes :
                                   publishPost(resp.user, id, o)
GateGetAllConnections == Admitted("getAllConnections") /\ getAllConnections(resp.user)
GateCreateConnection ==
    Admitted("createConnection") /\ \E b \in ApiCreateConnectionBodies :
                                        createConnection(resp.user, b)
GateUpdateConnection ==
    Admitted("updateConnection") /\ \E id \in ConnIdRange, b \in ApiUpdateConnectionBodies :
                                        updateConnection(resp.user, id, b)
GateDeleteConnection ==
    Admitted("deleteConnection") /\ \E id \in ConnIdRange : deleteConnection(resp.user, id)
GateReconnectConnection ==
    Admitted("reconnectConnection") /\ \E id \in ConnIdRange, b \in ApiReconnectBodies :
                                           reconnectConnection(resp.user, id, b)
GateDashboard == Admitted("getDashboard") /\ getDashboard(resp.user)
GatePostAnalytics ==
    Admitted("getPostAnalytics") /\ \E id \in PostIdRange : getPostAnalytics(resp.user, id)

NextGate ==
    \/ Respond
    \/ GateTick
    \/ GateRequireAuth
    \/ GateMe
    \/ GateLogout
    \/ GateGetAllPosts
    \/ GateGetPostById
    \/ GateCreatePost
    \/ GateUpdatePost
    \/ GateDeletePost
    \/ GatePublishPost
    \/ GateGetAllConnections
    \/ GateCreateConnection
    \/ GateUpdateConnection
    \/ GateDeleteConnection
    \/ GateReconnectConnection
    \/ GateDashboard
    \/ GatePostAnalytics

SpecGate == InitGate /\ [][NextGate]_vars

\* The header is no 'Bearer ' header, or its token is not signed with the
\* server's secret, or is expired, or names a user without row.
Unauthorized(authHeader) ==
    \/ authHeader = Absent
    \/ authHeader.scheme # "Bearer "
    \/ "key" \notin DOMAIN authHeader.token
    \/ authHeader.token.key # "jwt"
    \/ now \div 1000 >= authHeader.token.exp
    \/ \A r \in users : r.id # authHeader.token.userId

ProtectedOps == GateOps \cup {"me", "logout"}

----------------------------------------------------------------------------
(* SpecStatus: the requests that write a post's status *)

\* type PostStatus
PostStatus == {"draft", "scheduled", "published", "failed", "review"}

StatusCreatePostBodies ==
    {[platforms |-> {"instagram"}, content |-> <<"h", "e", "l", "l", "o">>],
     [platforms |-> {"instagram"}, content |-> <<"h", "e", "l", "l", "o">>, scheduledAt |-> 5]}

StatusUpdatePostBodies ==
    {[content |-> <<"b", "y", "e">>], [status |-> "review"], [status |-> "archived"]}

\* Callbacks that name the first post with each accepted status, with no
\* status, with an empty one and with one that is not accepted; one that
\* names no stored post, and one without postId.
StatusCallbackBodies ==
    {<<<<"postId", <<"1">>>>, <<"status", validStatuses[w]>>>> : w \in DOMAIN validStatuses}
        \cup {<<<<"postId", <<"1">>>>>>,
              <<<<"postId", <<"1">>>>, <<"status", <<>>>>>>,
              <<<<"postId", <<"1">>>>, <<"status", <<"d", "o", "n", "e">>>>>>,
              <<<<"postId", <<"9">>>>, <<"status", validStatuses.failed>>>>,
              <<<<"status", validStatuses.failed>>>>}

InitStatus ==
    /\ users = TwoUsers
    /\ posts = {}
    /\ conns = {}
    /\ nextId = [post |-> 0, conn |-> 0, user |-> 2]
    /\ now = 1000000
    /\ env = [JWT_SECRET |-> "jwt", WEBHOOK_SECRET |-> "whsec"]
    /\ resp = NoResponse
    /\ sent = <<>>
    /\ inflight = {}
    /\ console = <<>>

StatusCreatePost ==
    Idle /\ \E u \in Authenticated, b \in StatusCreatePostBodies : createPost(u, b)
StatusUpdatePost ==
    Idle /\ \E u \in Authenticated, id \in PostIdRange, b \in StatusUpdatePostBodies :
                updatePost(u, id, b)
StatusCreateConnection ==
    Idle /\ \E u \in Authenticated :
                createConnection(u, [platform |-> "instagram", accessToken |-> "at1",
                                     accountName |-> "acme"])
StatusPublishPost ==
    Idle /\ \E u \in Authenticated, id \in PostIdRange, o \in WebhookOutcomes :
                publishPost(u, id, o)
\* Callbacks of the holder of the webhook secret.
StatusCallback ==
    Idle /\ \E b \in StatusCallbackBodies :
                Callback([body |-> b, timestamp |-> ToStr(CurrentTime),
                          signature |-> ExpectedSignature(env.WEBHOOK_SECRET, b,
                                                          ToStr(CurrentTime))])

NextStatus ==
    \/ Respond
    \/ StatusCreatePost
    \/ StatusUpdatePost
    \/ StatusCreateConnection
    \/ StatusPublishPost
    \/ StatusCallback

SpecStatus == InitStatus /\ [][NextStatus]_vars

\* C16: the stored status of every post is one of draft, scheduled,
\* published, failed, review.
C16_StoredStatusInEnum == \A r \in posts : r.status \in PostStatus

----------------------------------------------------------------------------
(* SpecUpdate: updates that overlap.  db.updatePost and db.updateConnection *)
(* read the row, wait, and write every column from what they read merged   *)
(* with the updates; other requests run at the awaits.                     *)

\* updatePost up to the await of the UPDATE in db.updatePost: the row is
\* loaded, checked, and read as existing.
updatePostBegin(u, id, body) ==
    LET hit == findPostById(posts, id)
        gate == LoadCheck(hit, u)
    IN  IF gate = 404
        THEN ReplyOnly(Response("updatePost", u, id, body, 404, PostNotFound))
        ELSE IF gate = 403
        THEN ReplyOnly(Response("updatePost", u, id, body, 403, PostForbidden))
        ELSE Await("updatePost",
                   [user |-> u, id |-> id, body |-> body,
                    existing |-> mapRowToPost(CHOOSE r \in hit : TRUE),
                    updates |-> WithMetadata(body), written |-> FALSE])

\* updatePostWrite with the row read again when it is written.
updatePostWrite_ReadAgain(q) ==
    /\ q.op = "updatePost" /\ ~q.held.written
    /\ posts' = dbUpdatePost(posts, q.held.id, q.held.updates)[1]
    /\ inflight' = (inflight \ {q}) \cup {[q EXCEPT !.held.written = TRUE]}
    /\ UNCHANGED <<users, conns, nextId, now, env, resp, sent, console>>

\* The UPDATE of db.updatePost runs, with { ...existing, ...updates }.
updatePostWrite(q) ==
    /\ q.op = "updatePost" /\ ~q.held.written
    /\ posts' = UpdatePostRow(posts, q.held.id, Merge(q.held.existing, q.held.updates))
    /\ inflight' = (inflight \ {q}) \cup {[q EXCEPT !.held.written = TRUE]}
    /\ UNCHANGED <<users, conns, nextId, now, env, resp, sent, console>>

\* db.updatePost returns updated and updatePost answers.
updatePostAnswer(q) ==
    /\ q.op = "updatePost" /\ q.held.written
    /\ resp' = Response("updatePost", q.held.user, q.held.id, q.held.body, 200,
                   OkBody(Merge(q.held.existing, q.held.updates),
                          "Post erfolgreich aktualisiert!"))
    /\ sent' = <<>>
    /\ inflight' = inflight \ {q}
    /\ UNCHANGED <<users, posts, conns, nextId, now, env, console>>

\* updateConnection up to the await of the UPDATE in db.updateConnection.
updateConnectionBegin(u, id, body) ==
    LET hit == findConnectionById(conns, id)
        gate == LoadCheck(hit, u)
    IN  IF gate = 404
        THEN ReplyOnly(Response("updateConnection", u, id, body, 404, ConnNotFound))
        ELSE IF gate = 403
        THEN ReplyOnly(Response("updateConnection", u, id, body, 403, ConnForbidden))
        ELSE Await("updateConnection",
                   [user |-> u, id |-> id, body |-> body,
                    existing |-> mapRowToConnection(CHOOSE r \in hit : TRUE),
                    updates |-> body, written |-> FALSE])

\* The UPDATE of db.updateConnection runs, with { ...existing, ...updates }.
updateConnectionWrite(q) ==
    /\ q.op = "updateConnection" /\ ~q.held.written
    /\ conns' = UpdateConnectionRow(conns, q.held.id, Merge(q.held.existing, q.held.updates))
    /\ inflight' = (inflight \ {q}) \cup {[q EXCEPT !.held.written = TRUE]}
    /\ UNCHANGED <<users, posts, nextId, now, env, resp, sent, console>>

\* db.updateConnection returns updated and updateConnection answers.
updateConnectionAnswer(q) ==
    /\ q.op = "updateConnection" /\ q.held.written
    /\ resp' = Response("updateConnection", q.held.user, q.held.id, q.held.body, 200,
                   OkBody(Merge(q.held.existing, q.held.updates),
                          "Verbindung erfolgreich aktualisiert!"))
    /\ sent' = <<>>
    /\ inflight' = inflight \ {q}
    /\ UNCHANGED <<users, posts, conns, nextId, now, env, console>>

UpdPostBodies == {[content |-> <<"b", "y", "e">>], [status |-> "review"]}
UpdConnectionBodies == {[platformUsername |-> "bolt"], [status |-> "error"]}

\* The requests of the run: user 1 creates one post and one connection and
\* sends updates of them; updates of the post overlap with each other, and
\* so do updates of the connection.
UpdCreatePost ==
    /\ Idle /\ posts = {} /\ inflight = {}
    /\ createPost(1, [platforms |-> {"instagram"}, content |-> <<"h", "e", "l", "l", "o">>])
UpdCreateConnection ==
    /\ Idle /\ conns = {} /\ inflight = {}
    /\ createConnection(1, [platform |-> "instagram", accessToken |-> "at1",
                            accountName |-> "acme"])
UpdPostBegin ==
    /\ Idle /\ \A q \in inflight : q.op = "updatePost"
    /\ \E r \in posts, b \in UpdPostBodies : updatePostBegin(r.user_id, r.id, b)
UpdPostWrite == \E q \in inflight : updatePostWrite(q)
UpdPostAnswer == Idle /\ \E q \in inflight : updatePostAnswer(q)
UpdConnectionBegin ==
    /\ Idle /\ \A q \in inflight : q.op = "updateConnection"
    /\ \E r \in conns, b \in UpdConnectionBodies : updateConnectionBegin(r.user_id, r.id, b)
UpdConnectionWrite == \E q \in inflight : updateConnectionWrite(q)
UpdConnectionAnswer == Idle /\ \E q \in inflight : updateConnectionAnswer(q)

NextUpdate ==
    \/ Respond
    \/ UpdCreatePost
    \/ UpdCreateConnection
    \/ UpdPostBegin
    \/ UpdPostWrite
    \/ UpdPostAnswer
    \/ UpdConnectionBegin
    \/ UpdConnectionWrite
    \/ UpdConnectionAnswer

SpecUpdate == InitApi /\ [][NextUpdate]_vars

\* The step is the write of the waiting update q.
WriteOf(q) ==
    /\ ~q.held.written
    /\ [q EXCEPT !.held.written = TRUE] \in inflight'

\* What the update q leaves in field k: its own value when its body names
\* the field, else the value it read.
LeftBy(q, k) == IF k \in DOMAIN q.held.body THEN q.held.body[k] ELSE q.held.existing[k]

\* C17: db.updatePost and db.updateConnection are read-merge-write without
\* locking.  The write of an update puts into every column of the row the
\* value the update read when it began, or its own value for a field of its
\* body, whatever the row holds when the write runs, so that a change another
\* update wrote in between is overwritten; and the update is answered 200.
C17_LastWriteWinsOverRow ==
    [][\A q \in inflight :
        /\ (q.op = "updatePost" /\ WriteOf(q)) =>
              \A r \in posts' : r.id = q.held.id =>
                  /\ r.content = LeftBy(q, "content")
                  /\ r.status = LeftBy(q, "status")
                  /\ r.platforms = LeftBy(q, "platforms")
                  /\ r.scheduled_at = LeftBy(q, "scheduledAt")
                  /\ r.published_at = LeftBy(q, "publishedAt")
        /\ (q.op = "updateConnection" /\ WriteOf(q)) =>
              \A r \in conns' : r.id = q.held.id =>
                  /\ r.status = LeftBy(q, "status")
                  /\ r.platform_username = LeftBy(q, "platformUsername")
                  /\ r.access_token = LeftBy(q, "accessToken")
        /\ (q.held.written /\ q \notin inflight') =>
              /\ resp'.op = q.op /\ resp'.status = 200
              /\ \A k \in {"status"} \cup DOMAIN q.held.body :
                     resp'.body.data[k] = LeftBy(q, k)]_vars

\* Two updates of one post overlapped.  The one that changes the content
\* wrote first and has been answered 200; the one that changes the status
\* wrote second, and the row holds its status and the content it had read,
\* not the content the first one wrote.
C17_Witness ==
    /\ resp.op = "updatePost" /\ resp.status = 200 /\ Has(resp.input, "content")
    /\ \E q \in inflight, r \in posts :
          /\ q.op = "updatePost" /\ q.held.written
          /\ q.held.id = resp.id /\ r.id = resp.id
          /\ Has(q.held.body, "status") /\ r.status = q.held.body.status
          /\ r.content = q.held.existing.content
          /\ r.content # resp.input.content

----------------------------------------------------------------------------
(* SpecMeta: the metadata of a post in the answers of createPost,          *)
(* updatePost and getPostById                                              *)

HelloWorldFriend ==
    <<"H", "e", "l", "l", "o", " ", "#", "w", "o", "r", "l", "d", " ",
      "@", "f", "r", "i", "e", "n", "d">>

MetaContents ==
    {HelloWorldFriend, <<"h", "i">>, <<" ", "a", " ", "#", "b", "\n">>, <<>>}

MetaCreateBodies ==
    {[platforms |-> {"instagram"}, content |-> c] : c \in MetaContents \ {<<>>}}

MetaUpdateBodies ==
    {[content |-> c] : c \in MetaContents} \cup {[status |-> "review"]}

\* The body behind sanitizeRequestBody.
MetaSanitized(body) ==
    IF Has(body, "content") THEN [body EXCEPT !.content = sanitizeInput(@)] ELSE body

MetaCreatePost ==
    Idle /\ \E u \in Authenticated, b \in MetaCreateBodies : createPost(u, MetaSanitized(b))
MetaUpdatePost ==
    Idle /\ \E u \in Authenticated, id \in PostIdRange, b \in MetaUpdateBodies :
                updatePost(u, id, MetaSanitized(b))
MetaGetPostById ==
    Idle /\ \E u \in Authenticated, id \in PostIdRange : getPostById(u, id)

NextMeta ==
    \/ Respond
    \/ MetaCreatePost
    \/ MetaUpdatePost
    \/ MetaGetPostById

SpecMeta == InitApi /\ [][NextMeta]_vars

\* The post in the answer carries the metadata of its content.
MetadataOfContent(post) ==
    /\ Has(post, "metadata")
    /\ post.metadata = calculateMetadata(post.content)

\* C18: an updatePost by the owner that changes the content, also to the
\* empty string, returns the post with the metadata of the new content, and
\* a post read back carries the metadata of its content.
C18_MetadataFollowsContent ==
    [][/\ (/\ resp'.op = "updatePost" /\ resp'.status = 200
           /\ Has(resp'.input, "content")
           /\ \E r \in posts : r.id = resp'.id /\ r.content # resp'.input.content)
          => /\ resp'.body.data.content = resp'.input.content
             /\ MetadataOfContent(resp'.body.data)
       /\ (resp'.op = "getPostById" /\ resp'.status = 200)
          => MetadataOfContent(resp'.body.data)]_vars

\* C19: createPost with content "Hello #world @friend" returns a post with
\* hashtags ["#world"], mentions ["@friend"] and wordCount 2.
C19_HelloWorldFriend ==
    (resp.op = "createPost" /\ resp.status = 201 /\ resp.input.content = HelloWorldFriend)
        => /\ resp.body.data.metadata.hashtags = <<<<"#", "w", "o", "r", "l", "d">>>>
           /\ resp.body.data.metadata.mentions = <<<<"@", "f", "r", "i", "e", "n", "d">>>>
           /\ resp.body.data.metadata.wordCount = 2

----------------------------------------------------------------------------
(* SpecFault: persistence operations that throw.  Every handler awaits its *)
(* persistence operations inside a try block; the catch block answers.     *)

\* The messages of the errors the pool throws: a constraint violation, a
\* lost connection, an error without message.
DbErrorMessages ==
    {InsertErrorMessage, "Connection terminated unexpectedly", ""}

\* The message in the catch block of each handler; requireAuth answers for
\* me when findUserById throws.
CatchMessage ==
    [signup |-> "Ein Fehler ist aufgetreten.",
     login |-> "Ein Fehler ist aufgetreten.",
     me |-> "Ein Fehler ist aufgetreten.",
     getAllPosts |-> "Fehler beim Laden der Posts.",
     getPostById |-> "Fehler beim Laden des Posts.",
     createPost |-> "Fehler beim Erstellen des Posts.",
     updatePost |-> "Fehler beim Aktualisieren des Posts.",
     deletePost |-> "Fehler beim Löschen des Posts.",
     getAllConnections |-> "Fehler beim Laden der Verbindungen.",
     createConnection |-> "Fehler beim Erstellen der Verbindung.",
     updateConnection |-> "Fehler beim Aktualisieren der Verbindung.",
     deleteConnection |-> "Fehler beim Löschen der Verbindung."]

\* The body the catch block of op writes for an error with the message.
\* signup: message: error?.message || 'Ein Fehler ist aufgetreten.'
Caught(op, message) ==
    ErrBody(500, "Internal Server Error",
            IF op = "signup" /\ message # "" THEN message ELSE CatchMessage[op])

\* A persistence operation of the handler throws before any row is written.
Throws(op, u, id, input, message) ==
    ReplyOnly(Response(op, u, id, input, 500, Caught(op, message)))

\* The handlers whose first await is a persistence operation on the row or
\* the rows of the caller.
FaultPostOps == {"getPostById", "updatePost", "deletePost"}
FaultConnectionOps == {"updateConnection", "deleteConnection"}

\* signup reaches db.findUserByEmail when its fields pass the checks.
FaultSignup ==
    Idle /\ \E b \in SignupBodies, m \in DbErrorMessages :
                /\ signupChecks({}, b) = PassOn
                /\ Throws("signup", NoId, NoId, b, m)
\* login reaches db.findUserByEmail when both fields are there.
FaultLogin ==
    Idle /\ \E b \in LoginBodies, m \in DbErrorMessages :
                /\ GetQ(b, "email") # Absent /\ GetQ(b, "password") # Absent
                /\ Throws("login", NoId, NoId, b, m)
\* db.findUserById throws in requireAuth, behind jwt.verify.
FaultMe ==
    Idle /\ \E u \in Authenticated, m \in DbErrorMessages :
                ReplyOnly(AnsweredBy("requireAuth",
                    Response("me", NoId, NoId,
                             [authorization |-> Bearer(generateToken(u))], 500,
                             Caught("me", m))))
FaultGetAll ==
    Idle /\ \E op \in {"getAllPosts", "getAllConnections"}, u \in Authenticated,
               m \in DbErrorMessages : Throws(op, u, NoId, <<>>, m)
FaultPost ==
    Idle /\ \E op \in FaultPostOps, u \in Authenticated, id \in PostIdRange,
               m \in DbErrorMessages : Throws(op, u, id, <<>>, m)
FaultConnection ==
    Idle /\ \E op \in FaultConnectionOps, u \in Authenticated, id \in ConnIdRange,
               m \in DbErrorMessages : Throws(op, u, id, <<>>, m)
\* createPost reaches db.createPost when platforms are named.
FaultCreatePost ==
    Idle /\ \E u \in Authenticated, b \in CreatePostBodies, m \in DbErrorMessages :
                /\ Has(b, "platforms") /\ b.platforms # {}
                /\ Throws("createPost", u, NoId, b, m)
\* createConnection reaches the persistence layer with a valid platform.
FaultCreateConnection ==
    Idle /\ \E u \in Authenticated, b \in ConnCreateBodies, m \in DbErrorMessages :
                /\ GetS(b, "platform") \in ValidPlatforms
                /\ Throws("createConnection", u, NoId, b, m)

\* A createPost whose persistence operation does not throw.
FaultOkCreatePost ==
    Idle /\ \E u \in Authenticated, b \in CreatePostBodies : createPost(u, b)

NextFault ==
    \/ Respond
    \/ FaultOkCreatePost
    \/ FaultSignup
    \/ FaultLogin
    \/ FaultMe
    \/ FaultGetAll
    \/ FaultPost
    \/ FaultConnection
    \/ FaultCreatePost
    \/ FaultCreateConnection

SpecFault == InitApi /\ [][NextFault]_vars

\* C20: when a persistence operation throws, the answer is 500 with the
\* envelope and the fixed message of the endpoint: the body is the same for
\* any two errors, nothing of it comes from the error.
C20_GenericError ==
    resp.status = 500 =>
        resp.body = ErrBody(500, "Internal Server Error", CatchMessage[resp.op])

----------------------------------------------------------------------------
(* The console of the auth controller *)

\* The line prints the character string as the value of a field.
Prints(line, string) ==
    \E k \in DOMAIN line.args \cap {"email", "password"} : line.args[k] = string

\* C21: no line the server logs while it handles a signup or a login
\* contains the password sent in that request, whatever the answer is.
C21_NoPasswordInLogs ==
    (resp.op \in {"signup", "login"} /\ GetQ(resp.input, "password") # Absent)
        => \A i \in DOMAIN console : ~Prints(console[i], resp.input.password)

----------------------------------------------------------------------------
(* Properties of the callback handler *)

\* The request body has a member k.
Carries(body, k) == \E i \in DOMAIN body : body[i][1] = k

\* C22: a callback that reaches the handler and names a stored post with a
\* status among published, failed and pending sets the stored status of that
\* post to the given one and changes no other post; one without postId, or
\* with a status outside these three, is answered 400, and one whose postId
\* names no stored post is answered 200, both without a change to any post.
C22_CallbackWritesNamedStatus ==
    [][CallbackStep /\ PassedOn(resp') =>
         LET body == resp'.input.body
             status == Field(body, "status")
             id == PostIdNamed(posts, Field(body, "postId"))
         IN  IF \/ ~Carries(body, "postId")
                \/ Carries(body, "status") /\ status \notin Range(validStatuses)
             THEN resp'.status = 400 /\ posts' = posts
             ELSE IF id = NoId
             THEN resp'.status = 200 /\ posts' = posts
             ELSE /\ resp'.status = 200
                  /\ \A r \in posts : r.id # id => r \in posts'
                  /\ {r.id : r \in posts'} = {r.id : r \in posts}
                  /\ Carries(body, "status")
                        => \A r \in posts' : r.id = id => r.status = StatusNamed(status)]_vars

----------------------------------------------------------------------------
(* SpecPublish: publishPost against a database whose statements can fail *)

PublishCreatePost ==
    Idle /\ \E u \in Authenticated :
                createPost(u, [platforms |-> {"instagram"}, content |-> <<"h", "i">>])
PublishCreateConnection ==
    Idle /\ \E u \in Authenticated, p \in {"instagram", "linkedin"} :
                createConnection(u, [platform |-> p, accessToken |-> "at1",
                                     accountName |-> "acme"])
PublishPost ==
    Idle /\ \E u \in Authenticated, id \in PostIdRange, o \in WebhookOutcomes,
                w \in DbOutcomes, rw \in DbOutcomes :
                publishPostDb(u, id, o, w, rw)

NextPublish ==
    \/ Respond
    \/ PublishCreatePost
    \/ PublishCreateConnection
    \/ PublishPost

SpecPublish == InitApi /\ [][NextPublish]_vars

\* The step answers a publishPost whose call to n8n got the outcome o.
PublishStep(o) ==
    /\ resp = NoResponse /\ resp'.op = "publishPost"
    /\ sent' # <<>> /\ sent'[1].outcome = o

\* C23: a publishPost whose call to n8n succeeded writes no status 'failed':
\* the post is 'failed' after the request only if it was before.
C23_FailedOnlyAfterWebhookFailure ==
    [][PublishStep("ok") =>
         \A r \in posts' : (r.id = resp'.id /\ r.status = "failed")
                               => \E q \in posts : q.id = r.id /\ q.status = "failed"]_vars

----------------------------------------------------------------------------
(* Properties of the webhook pipeline: the sender's side *)

\* The header is a number of seconds no more than 300 from the server clock.
WithinWindow(timestamp) ==
    /\ timestamp # Absent
    /\ ~ParseInt(timestamp).nan
    /\ Abs(CurrentTime - ParseInt(timestamp).n) <= MaxAge

\* C24: with a secret configured, a callback whose timestamp is within 300
\* seconds of the clock and whose signature is the digest, under the secret,
\* of the JSON text of the body as sent followed by the timestamp reaches the
\* handler, whatever strings the body holds.
C24_SenderSignatureAccepted ==
    [][CallbackStep /\ SecretConfigured =>
         LET req == resp'.input
         IN  (/\ WithinWindow(req.timestamp)
              /\ req.signature = ExpectedSignature(WEBHOOK_SECRET, req.body, req.timestamp))
             => PassedOn(resp')]_vars

\* The verifier did not stop the request at the headers or at the staleness
\* check: it compared the signatures.
PastStalenessCheck(r) ==
    \/ PassedOn(r)
    \/ r.by = "verifyWebhookSignature" /\ r.body.message = "Ungültige Webhook-Signatur."

\* C25: with a secret configured, every callback that gets past the
\* staleness check has a timestamp header that is a number of seconds within
\* 300 of the server clock; a timestamp that parses to NaN is answered 401 by
\* the staleness check.
C25_StalenessCheckNeedsNumber ==
    [][CallbackStep /\ SecretConfigured =>
         LET req == resp'.input
         IN  /\ PastStalenessCheck(resp') => WithinWindow(req.timestamp)
             /\ (req.signature # Absent /\ req.timestamp # Absent
                    /\ ParseInt(req.timestamp).nan)
                  => /\ Rejected(resp')
                     /\ resp'.body.message = "Webhook-Request abgelaufen."]_vars

----------------------------------------------------------------------------
(* Properties of the publication time *)

\* C26: a callback that reaches the handler changes, of the post it names,
\* nothing but the status and, when the status is 'published', publishedAt:
\* with 'failed', 'pending' or no status the stored publishedAt stays as it
\* was; and every post that a callback or publishPost sets to 'published'
\* has its publishedAt set.
C26_PublishedAtFollowsPublished ==
    [][(resp = NoResponse /\ resp'.op \in {"callback", "publishPost"}) =>
         \A r \in posts' : \A q \in posts :
            q.id = r.id =>
                /\ (resp'.op = "callback" /\ PassedOn(resp'))
                     => /\ r.id # resp'.id => r = q
                        /\ r.user_id = q.user_id /\ r.content = q.content
                        /\ r.platforms = q.platforms
                        /\ r.scheduled_at = q.scheduled_at
                        /\ Field(resp'.input.body, "status") # validStatuses.published
                             => r.published_at = q.published_at
                /\ (r # q /\ r.status = "published") => r.published_at # NoTime]_vars

----------------------------------------------------------------------------
(* Properties of the stored connections *)

\* C27: every stored connection whose status is 'connected' has a non-empty
\* access token.
C27_ConnectedHasToken ==
    \A r \in conns : r.status = "connected" => Truthy(r.access_token)

\* C28: the connection that createConnection returns with 201 is a stored
\* row: a row with the returned id exists, it belongs to the caller and has
\* the platform asked for, so that the load check of a following update,
\* reconnect or delete with that id does not answer 404.
C28_ReturnedConnectionIsStored ==
    (resp.op = "createConnection" /\ resp.status = 201) =>
        LET hit == findConnectionById(conns, resp.body.data.id)
        IN  /\ LoadCheck(hit, resp.user) = 200
            /\ \A r \in hit : r.platform = resp.body.data.platform

----------------------------------------------------------------------------
(* SpecOwner: both users at the whole API, with bodies that name rows,    *)
(* owners and platforms of their own choice                               *)

\* Each user has an access token of their own.
OwnToken(u) == IF u = 1 THEN "at1" ELSE "at2"

OwnUpdatePostBodies ==
    {[content |-> <<"b", "y", "e">>],
     [id |-> 9, userId |-> 2, status |-> "review"],
     [id |-> 9, userId |-> 1, status |-> "review"]}
OwnUpdateConnectionBodies ==
    {[status |-> "error"],
     [id |-> 9, userId |-> 2, platform |-> "linkedin"],
     [id |-> 9, userId |-> 1, platform |-> "linkedin"]}

OwnGetAllPosts == Idle /\ \E u \in Authenticated : getAllPosts(u)
OwnGetPostById == Idle /\ \E u \in Authenticated, id \in PostIdRange : getPostById(u, id)
OwnCreatePost ==
    Idle /\ \E u \in Authenticated :
                createPost(u, [platforms |-> {"instagram"}, content |-> <<"h", "i">>])
OwnUpdatePost ==
    Idle /\ \E u \in Authenticated, id \in PostIdRange, b \in OwnUpdatePostBodies :
                updatePost(u, id, b)
OwnDeletePost == Idle /\ \E u \in Authenticated, id \in PostIdRange : deletePost(u, id)
OwnPublishPost ==
    Idle /\ \E u \in Authenticated, id \in PostIdRange, o \in {"ok", "http_error"} :
                publishPost(u, id, o)
OwnCallback ==
    Idle /\ Callback([body |-> <<<<"postId", <<"1">>>>, <<"status", validStatuses.failed>>>>,
                      signature |-> Absent, timestamp |-> Absent])
OwnGetAllConnections == Idle /\ \E u \in Authenticated : getAllConnections(u)
OwnCreateConnection ==
    Idle /\ \E u \in Authenticated :
                createConnection(u, [platform |-> "instagram", accessToken |-> OwnToken(u)])
OwnUpdateConnection ==
    Idle /\ \E u \in Authenticated, id \in ConnIdRange, b \in OwnUpdateConnectionBodies :
                updateConnection(u, id, b)
OwnDeleteConnection ==
    Idle /\ \E u \in Authenticated, id \in ConnIdRange : deleteConnection(u, id)
OwnReconnectConnection ==
    Idle /\ \E u \in Authenticated, id \in ConnIdRange :
                reconnectConnection(u, id, [accessToken |-> OwnToken(u)])

NextOwner ==
    \/ Respond
    \/ OwnGetAllPosts
    \/ OwnGetPostById
    \/ OwnCreatePost
    \/ OwnUpdatePost
    \/ OwnDeletePost
    \/ OwnPublishPost
    \/ OwnCallback
    \/ OwnGetAllConnections
    \/ OwnCreateConnection
    \/ OwnUpdateConnection
    \/ OwnDeleteConnection
    \/ OwnReconnectConnection

SpecOwner == InitApi /\ [][NextOwner]_vars

\* The step answers a delete of the row with this id with 200.
Deletes(op, id) == resp'.op = op /\ resp'.status = 200 /\ resp'.id = id

\* C29: no request changes the id or the owner of a stored post, or the id,
\* the owner or the platform of a stored connection, whatever the body of an
\* update names: a stored row is either deleted by the step or still there
\* under its id with the same owner (and platform), and a row that appears
\* belongs to the user who created it.
C29_IdOwnerPlatformFixed ==
    [][/\ \A r \in posts :
            \/ Deletes("deletePost", r.id)
            \/ \E q \in posts' : q.id = r.id /\ q.user_id = r.user_id
       /\ \A r \in conns :
            \/ Deletes("deleteConnection", r.id)
            \/ \E q \in conns' : /\ q.id = r.id /\ q.user_id = r.user_id
                                  /\ q.platform = r.platform
       /\ \A q \in posts' :
            (\A r \in posts : r.id # q.id)
                => resp'.op = "createPost" /\ q.user_id = resp'.user
       /\ \A q \in conns' :
            (\A r \in conns : r.id # q.id)
                => resp'.op = "createConnection" /\ q.user_id = resp'.user
       /\ \A q1, q2 \in posts' : q1.id = q2.id => q1 = q2
       /\ \A q1, q2 \in conns' : q1.id = q2.id => q1 = q2]_vars

\* An update whose body names another id, another owner and another platform
\* was answered 200, and the row is the caller's instagram connection still.
C29_Witness ==
    /\ resp.op = "updateConnection" /\ resp.status = 200
    /\ Has(resp.input, "userId") /\ resp.input.userId # resp.user
    /\ resp.input.platform = "linkedin" /\ resp.input.id # resp.id
    /\ \E r \in conns : /\ r.id = resp.id /\ r.user_id = resp.user
                         /\ r.platform = "instagram"
    /\ \E r \in posts : r.status = "review"

\* The operations a signed-in user calls.
UserOps ==
    {"getAllPosts", "getPostById", "createPost", "updatePost", "deletePost",
     "publishPost", "getAllConnections", "createConnection", "updateConnection",
     "deleteConnection", "reconnectConnection"}

====
